---- MODULE Spec2Model ----
(***************************************************************************)
(* Model of the binding and formatting engine of ioBroker.vis-2            *)
(* (src/src/src/Vis/visFormatUtils.jsx, class VisFormatUtils) together     *)
(* with deepClone of src/src/src/Utils/utils.tsx.                          *)
(*                                                                         *)
(* JavaScript strings are sequences of one-character strings.  JavaScript  *)
(* values are records with a tag field t.  Numbers are exact rationals     *)
(* n/d whose denominator is a power of two (these are exactly             *)
(* representable as doubles and print as their exact decimal expansion);   *)
(* a computation that leaves this domain yields the value Unmodelled and   *)
(* the inputs that lead to it are excluded by the guards of the actions.   *)
(***************************************************************************)
EXTENDS Integers, Sequences, FiniteSets, TLC

(***************************************************************************)
(* Strings                                                                 *)
(***************************************************************************)
IsPrefixAt(s, p, i) ==
    /\ i + Len(p) - 1 <= Len(s)
    /\ \A k \in 1..Len(p) : s[i + k - 1] = p[k]

RECURSIVE IndexFrom(_, _, _)
IndexFrom(s, p, i) ==
    IF i + Len(p) - 1 > Len(s) THEN 0
    ELSE IF IsPrefixAt(s, p, i) THEN i
    ELSE IndexFrom(s, p, i + 1)

\* String.prototype.indexOf, 1-based, 0 when absent
IndexOf(s, p) == IndexFrom(s, p, 1)

\* String.prototype.includes
Includes(s, p) == IndexOf(s, p) # 0

\* String.prototype.startsWith
StartsWith(s, p) == IsPrefixAt(s, p, 1)

Slice(s, from, to) == IF from > to THEN <<>> ELSE SubSeq(s, from, to)

Digits == <<"0", "1", "2", "3", "4", "5", "6", "7", "8", "9">>
HexDigits == Digits \o <<"a", "b", "c", "d", "e", "f">>
IsDigit(c) == \E k \in 1..10 : Digits[k] = c
DigitVal(c) == (CHOOSE k \in 1..10 : Digits[k] = c) - 1

\* GetSubstitution of String.prototype.replace for a string pattern (no
\* capture groups): $$ is a dollar sign, $& the match, $` the text before
\* the match, $' the text after it; every other character is literal.
RECURSIVE GetSubstitution(_, _, _, _, _)
GetSubstitution(r, i, matched, before, after) ==
    IF i > Len(r) THEN <<>>
    ELSE IF r[i] = "$" /\ i < Len(r) /\ r[i + 1] = "$"
        THEN <<"$">> \o GetSubstitution(r, i + 2, matched, before, after)
    ELSE IF r[i] = "$" /\ i < Len(r) /\ r[i + 1] = "&"
        THEN matched \o GetSubstitution(r, i + 2, matched, before, after)
    ELSE IF r[i] = "$" /\ i < Len(r) /\ r[i + 1] = "`"
        THEN before \o GetSubstitution(r, i + 2, matched, before, after)
    ELSE IF r[i] = "$" /\ i < Len(r) /\ r[i + 1] = "'"
        THEN after \o GetSubstitution(r, i + 2, matched, before, after)
    ELSE <<r[i]>> \o GetSubstitution(r, i + 1, matched, before, after)

\* String.prototype.replace(pattern: string, replacement: string): only the
\* first occurrence of the pattern is replaced
StringReplace(s, p, r) ==
    LET pos == IndexOf(s, p) IN
    IF pos = 0 THEN s
    ELSE LET before == Slice(s, 1, pos - 1)
             after == Slice(s, pos + Len(p), Len(s))
         IN before \o GetSubstitution(r, 1, p, before, after) \o after

\* s.replace(/cc/g, 'c') for a one-character c: non-overlapping matches,
\* scanned from the left
RECURSIVE ReplaceDoubled(_, _, _)
ReplaceDoubled(s, c, i) ==
    IF i > Len(s) THEN <<>>
    ELSE IF s[i] = c /\ i < Len(s) /\ s[i + 1] = c
        THEN <<c>> \o ReplaceDoubled(s, c, i + 2)
    ELSE <<s[i]>> \o ReplaceDoubled(s, c, i + 1)

LowerCase == <<"a", "b", "c", "d", "e", "f", "g", "h", "i", "j", "k", "l", "m",
               "n", "o", "p", "q", "r", "s", "t", "u", "v", "w", "x", "y", "z">>
UpperCase == <<"A", "B", "C", "D", "E", "F", "G", "H", "I", "J", "K", "L", "M",
               "N", "O", "P", "Q", "R", "S", "T", "U", "V", "W", "X", "Y", "Z">>

\* String.prototype.toUpperCase
RECURSIVE ToUpperCase(_)
ToUpperCase(s) ==
    IF s = <<>> THEN <<>>
    ELSE LET c == Head(s)
             u == IF \E k \in 1..26 : LowerCase[k] = c
                  THEN UpperCase[CHOOSE k \in 1..26 : LowerCase[k] = c]
                  ELSE c
         IN <<u>> \o ToUpperCase(Tail(s))

\* the TLA+ string spelled by a sequence of characters (used as a map key)
RECURSIVE Implode(_)
Implode(s) == IF s = <<>> THEN "" ELSE Head(s) \o Implode(Tail(s))

(***************************************************************************)
(* JavaScript values                                                       *)
(***************************************************************************)
Undefined == [t |-> "undefined"]
Null == [t |-> "null"]
NaN == [t |-> "NaN"]
Unmodelled == [t |-> "unmodelled"]
Bool(b) == [t |-> "boolean", b |-> b]
Str(s) == [t |-> "string", s |-> s]
Arr(e) == [t |-> "array", e |-> e]
Obj(f) == [t |-> "object", f |-> f]

Abs(n) == IF n < 0 THEN -n ELSE n

RECURSIVE Gcd(_, _)
Gcd(a, b) == IF b = 0 THEN a ELSE Gcd(b, a % b)

\* the number n/d in lowest terms, d > 0
Num(n, d) ==
    LET g == Gcd(Abs(n), Abs(d))
        sg == IF d < 0 THEN -1 ELSE 1
    IN [t |-> "number", n |-> sg * (n \div g), d |-> sg * (d \div g)]

Int2Num(n) == [t |-> "number", n |-> n, d |-> 1]

RECURSIVE IsPow2(_)
IsPow2(d) == d = 1 \/ (d > 1 /\ d % 2 = 0 /\ IsPow2(d \div 2))

\* a rational is kept only when a double holds it exactly
Exact(n, d) == IF d = 0 THEN Unmodelled
               ELSE LET q == Num(n, d) IN IF IsPow2(q.d) THEN q ELSE Unmodelled

IsNum(v) == v.t = "number"
IsStr(v) == v.t = "string"

\* typeof
TypeOf(v) ==
    CASE v.t = "undefined" -> "undefined"
      [] v.t = "null" -> "object"
      [] v.t = "NaN" -> "number"
      [] v.t = "number" -> "number"
      [] v.t = "boolean" -> "boolean"
      [] v.t = "string" -> "string"
      [] v.t = "array" -> "object"
      [] v.t = "object" -> "object"
      [] OTHER -> "unmodelled"

\* ToBoolean
Truthy(v) ==
    CASE v.t = "undefined" -> FALSE
      [] v.t = "null" -> FALSE
      [] v.t = "NaN" -> FALSE
      [] v.t = "number" -> v.n # 0
      [] v.t = "boolean" -> v.b
      [] v.t = "string" -> v.s # <<>>
      [] OTHER -> TRUE

RECURSIVE NatToString(_)
NatToString(n) ==
    IF n < 10 THEN <<Digits[n + 1]>>
    ELSE NatToString(n \div 10) \o <<Digits[(n % 10) + 1]>>

RECURSIVE FracToString(_, _)
FracToString(r, d) ==
    IF r = 0 THEN <<>>
    ELSE <<Digits[((r * 10) \div d) + 1]>> \o FracToString((r * 10) % d, d)

\* Number::toString(10) of n/d
NumToString(n, d) ==
    LET a == Abs(n)
        ip == NatToString(a \div d)
        fr == FracToString(a % d, d)
    IN (IF n < 0 THEN <<"-">> ELSE <<>>) \o ip
       \o (IF fr = <<>> THEN <<>> ELSE <<".">> \o fr)

RECURSIVE NatToHex(_)
NatToHex(n) ==
    IF n < 16 THEN <<HexDigits[n + 1]>>
    ELSE NatToHex(n \div 16) \o <<HexDigits[(n % 16) + 1]>>

S_undefined == <<"u", "n", "d", "e", "f", "i", "n", "e", "d">>
S_null == <<"n", "u", "l", "l">>
S_NaN == <<"N", "a", "N">>
S_true == <<"t", "r", "u", "e">>
S_false == <<"f", "a", "l", "s", "e">>
S_objectObject == <<"[", "o", "b", "j", "e", "c", "t", " ", "O", "b", "j", "e", "c", "t", "]">>

RECURSIVE JSToString(_)
RECURSIVE JoinElements(_, _)
\* Array.prototype.join(','): undefined and null elements give ''
JoinElements(e, i) ==
    IF i > Len(e) THEN <<>>
    ELSE (IF i > 1 THEN <<",">> ELSE <<>>)
         \o (IF e[i].t \in {"undefined", "null"} THEN <<>> ELSE JSToString(e[i]))
         \o JoinElements(e, i + 1)

\* JSToString (String(v), template literals, the argument of replace)
JSToString(v) ==
    CASE v.t = "undefined" -> S_undefined
      [] v.t = "null" -> S_null
      [] v.t = "NaN" -> S_NaN
      [] v.t = "number" -> NumToString(v.n, v.d)
      [] v.t = "boolean" -> IF v.b THEN S_true ELSE S_false
      [] v.t = "string" -> v.s
      [] v.t = "array" -> JoinElements(v.e, 1)
      [] v.t = "object" -> S_objectObject

IsSpace(c) == c = " "

RECURSIVE SkipSpaces(_, _)
SkipSpaces(s, i) == IF i <= Len(s) /\ IsSpace(s[i]) THEN SkipSpaces(s, i + 1) ELSE i

RECURSIVE DigitsEnd(_, _)
\* first index at or after i that is not a decimal digit
DigitsEnd(s, i) == IF i <= Len(s) /\ IsDigit(s[i]) THEN DigitsEnd(s, i + 1) ELSE i

RECURSIVE DigitsValue(_, _, _)
DigitsValue(s, i, j) == IF j < i THEN 0 ELSE DigitsValue(s, i, j - 1) * 10 + DigitVal(s[j])

RECURSIVE Pow10(_)
Pow10(k) == IF k <= 0 THEN 1 ELSE 10 * Pow10(k - 1)

\* parseFloat applied to a string: the longest prefix that is a decimal
\* literal (sign, digits, fraction); NaN when there is none.  Exponents and
\* "Infinity" are outside the modelled domain.
ParseFloatString(s) ==
    LET i0 == SkipSpaces(s, 1)
        neg == i0 <= Len(s) /\ s[i0] = "-"
        i1 == IF i0 <= Len(s) /\ s[i0] \in {"-", "+"} THEN i0 + 1 ELSE i0
        i2 == DigitsEnd(s, i1)
        hasDot == i2 <= Len(s) /\ s[i2] = "."
        i3 == IF hasDot THEN DigitsEnd(s, i2 + 1) ELSE i2
        intDigits == i2 - i1
        fracDigits == IF hasDot THEN i3 - (i2 + 1) ELSE 0
        iend == IF hasDot /\ (intDigits + fracDigits > 0) THEN i3 ELSE i2
        sg == IF neg THEN -1 ELSE 1
    IN IF intDigits + fracDigits = 0
         THEN (IF i1 <= Len(s) /\ s[i1] = "I" THEN Unmodelled ELSE NaN)
       ELSE IF iend + 1 <= Len(s) /\ s[iend] \in {"e", "E"}
               /\ (IsDigit(s[iend + 1]) \/ s[iend + 1] \in {"-", "+"})
         THEN Unmodelled
       ELSE Exact(sg * (DigitsValue(s, i1, i2 - 1) * Pow10(fracDigits)
                        + DigitsValue(s, i2 + 1, i3 - 1) * (IF fracDigits > 0 THEN 1 ELSE 0)),
                  Pow10(fracDigits))

\* parseFloat(v)
ParseFloat(v) ==
    CASE v.t = "number" -> v
      [] v.t = "NaN" -> NaN
      [] v.t = "unmodelled" -> Unmodelled
      [] OTHER -> ParseFloatString(JSToString(v))

\* parseInt(v, 10)
ParseInt(v) ==
    IF v.t = "unmodelled" THEN Unmodelled
    ELSE LET s == JSToString(v)
             i0 == SkipSpaces(s, 1)
             neg == i0 <= Len(s) /\ s[i0] = "-"
             i1 == IF i0 <= Len(s) /\ s[i0] \in {"-", "+"} THEN i0 + 1 ELSE i0
             i2 == DigitsEnd(s, i1)
         IN IF i2 = i1 THEN NaN
            ELSE Int2Num((IF neg THEN -1 ELSE 1) * DigitsValue(s, i1, i2 - 1))

(***************************************************************************)
(* Number arithmetic.  Operands are numbers, NaN or Unmodelled.            *)
(***************************************************************************)
Throw == [t |-> "throw"]

\* ToNumber of an operation argument
ToNumber(v) ==
    CASE v.t = "undefined" -> NaN
      [] v.t = "null" -> Int2Num(0)
      [] v.t = "NaN" -> NaN
      [] v.t = "number" -> v
      [] v.t = "boolean" -> Int2Num(IF v.b THEN 1 ELSE 0)
      [] OTHER -> Unmodelled

Sign(n) == IF n < 0 THEN -1 ELSE 1

\* a op b for op in * / + - %
Arith(op, a, b) ==
    IF a.t = "unmodelled" \/ b.t = "unmodelled" THEN Unmodelled
    ELSE IF a.t = "NaN" \/ b.t = "NaN" THEN NaN
    ELSE CASE op = "*" -> Exact(a.n * b.n, a.d * b.d)
           [] op = "+" -> Exact(a.n * b.d + b.n * a.d, a.d * b.d)
           [] op = "-" -> Exact(a.n * b.d - b.n * a.d, a.d * b.d)
           [] op = "/" -> IF b.n = 0 THEN (IF a.n = 0 THEN NaN ELSE Unmodelled)
                          ELSE Exact(a.n * b.d, a.d * b.n)
           [] op = "%" -> IF b.n = 0 THEN NaN
                          ELSE Exact(Sign(a.n) * ((Abs(a.n) * b.d) % (Abs(b.n) * a.d)),
                                     a.d * b.d)

\* a < b
Less(a, b) == a.t = "number" /\ b.t = "number" /\ a.n * b.d < b.n * a.d

\* Math.round: to the nearest integer, halves towards +Infinity
MathRound(x) ==
    IF x.t # "number" THEN x ELSE Int2Num((2 * x.n + x.d) \div (2 * x.d))

MathFloor(x) == IF x.t # "number" THEN x ELSE Int2Num(x.n \div x.d)

MathCeil(x) == IF x.t # "number" THEN x ELSE Int2Num(-((-x.n) \div x.d))

RECURSIVE ISqrt(_, _)
ISqrt(n, k) == IF k * k >= n THEN k ELSE ISqrt(n, k + 1)

\* Math.sqrt: exact on squares of modelled numbers, outside the domain otherwise
MathSqrt(x) ==
    IF x.t # "number" THEN x
    ELSE IF x.n < 0 THEN NaN
    ELSE LET rn == ISqrt(x.n, 0)
             rd == ISqrt(x.d, 0)
         IN IF rn * rn = x.n /\ rd * rd = x.d THEN Num(rn, rd) ELSE Unmodelled

RECURSIVE IntPow(_, _)
IntPow(b, k) == IF k = 0 THEN 1 ELSE b * IntPow(b, k - 1)

\* x ** y
Pow(x, y) ==
    IF y.t = "unmodelled" \/ x.t = "unmodelled" THEN Unmodelled
    ELSE IF y.t = "NaN" THEN NaN
    ELSE IF y.n = 0 THEN Int2Num(1)
    ELSE IF x.t # "number" THEN x
    ELSE IF y.d = 1 /\ y.n > 0 THEN Exact(IntPow(x.n, y.n), IntPow(x.d, y.n))
    ELSE Unmodelled

RECURSIVE PadStart(_, _, _)
PadStart(s, len, c) == IF Len(s) >= len THEN s ELSE PadStart(<<c>> \o s, len, c)

\* Number.prototype.toFixed(fractionDigits): RangeError outside 0..100
ToFixed(x, fractionDigits) ==
    LET f == ToNumber(fractionDigits)
        k == IF f.t = "NaN" THEN 0 ELSE Sign(f.n) * (Abs(f.n) \div f.d)
    IN IF x.t = "unmodelled" \/ f.t = "unmodelled" THEN Unmodelled
       ELSE IF k < 0 \/ k > 100 THEN Throw
       ELSE IF x.t = "NaN" THEN Str(S_NaN)
       ELSE LET n == (2 * Abs(x.n) * Pow10(k) + x.d) \div (2 * x.d)
                m == PadStart(NatToString(n), k + 1, "0")
            IN Str((IF x.n < 0 THEN <<"-">> ELSE <<>>)
                   \o Slice(m, 1, Len(m) - k)
                   \o (IF k = 0 THEN <<>> ELSE <<".">> \o Slice(m, Len(m) - k + 1, Len(m))))

\* Number.prototype.toString(16) of an integer or NaN
ToString16(x) ==
    CASE x.t = "NaN" -> Str(S_NaN)
      [] x.t = "number" -> Str((IF x.n < 0 THEN <<"-">> ELSE <<>>) \o NatToHex(Abs(x.n)))
      [] OTHER -> Unmodelled

(***************************************************************************)
(* Objects.  Objects with a fixed schema (bindings, operations, argument   *)
(* descriptors, widgets, widget data) are records tagged by t whose fields *)
(* hold JavaScript values, an absent property being Undefined.  Objects    *)
(* obtained from JSON text are Obj(f) with f a function from keys          *)
(* (character sequences) to values.                                        *)
(***************************************************************************)
Binding(visOid, token, operations) ==
    [t |-> "binding", visOid |-> visOid, systemOid |-> Undefined, token |-> token,
     operations |-> operations, format |-> Undefined, isSeconds |-> Bool(FALSE)]

Operation(op, arg, formula) ==
    [t |-> "operation", op |-> op, arg |-> arg, formula |-> formula]

Argument(name, visOid) ==
    [t |-> "argument", name |-> name, visOid |-> visOid, systemOid |-> Undefined]

WidgetData(name, oid) == [t |-> "widgetData", name |-> name, oid |-> oid]

Widget(data) == [t |-> "widget", tpl |-> Str(<<"t">>), data |-> data]

\* the value a property holds after JSON.parse(JSON.stringify(.)) of its owner:
\* NaN is written as null, undefined members of arrays are written as null,
\* undefined properties are dropped (and read as undefined afterwards)
RECURSIVE CloneMember(_)
CloneMember(v) ==
    CASE v.t = "NaN" -> Null
      [] v.t = "array" ->
            Arr([i \in 1..Len(v.e) |->
                    IF v.e[i].t = "undefined" THEN Null ELSE CloneMember(v.e[i])])
      [] v.t = "object" ->
            Obj([k \in {q \in DOMAIN v.f : v.f[q].t # "undefined"} |-> CloneMember(v.f[k])])
      [] v.t = "binding" ->
            [t |-> "binding", visOid |-> CloneMember(v.visOid),
             systemOid |-> CloneMember(v.systemOid), token |-> CloneMember(v.token),
             operations |-> CloneMember(v.operations), format |-> CloneMember(v.format),
             isSeconds |-> CloneMember(v.isSeconds)]
      [] v.t = "operation" ->
            [t |-> "operation", op |-> v.op, arg |-> CloneMember(v.arg),
             formula |-> CloneMember(v.formula)]
      [] v.t = "argument" ->
            [t |-> "argument", name |-> CloneMember(v.name),
             visOid |-> CloneMember(v.visOid), systemOid |-> CloneMember(v.systemOid)]
      [] v.t = "widgetData" ->
            [t |-> "widgetData", name |-> CloneMember(v.name), oid |-> CloneMember(v.oid)]
      [] v.t = "widget" ->
            [t |-> "widget", tpl |-> CloneMember(v.tpl), data |-> CloneMember(v.data)]
      [] OTHER -> v

deepCloneWithoutOperations(object) ==
    IF object.t = "undefined" THEN Throw
    ELSE IF object.t = "array"
      THEN Arr([i \in 1..Len(object.e) |->
                  IF object.e[i].t = "binding"
                  THEN [CloneMember(object.e[i]) EXCEPT !.operations = Undefined]
                  ELSE CloneMember(object.e[i])])
    ELSE CloneMember(object)

\* deepClone(object) == JSON.parse(JSON.stringify(object)); JSON.stringify of
\* undefined is undefined, which JSON.parse rejects with a SyntaxError
deepClone(object) ==
    IF object.t = "undefined" THEN Throw ELSE CloneMember(object)

\* String.prototype.split('.')
RECURSIVE SplitDot(_, _, _)
SplitDot(s, i, cur) ==
    IF i > Len(s) THEN <<cur>>
    ELSE IF s[i] = "." THEN <<cur>> \o SplitDot(s, i + 1, <<>>)
    ELSE SplitDot(s, i + 1, Append(cur, s[i]))

PrototypeKeys == {"constructor", "toString", "valueOf", "hasOwnProperty", "__proto__",
                  "isPrototypeOf", "propertyIsEnumerable", "toLocaleString"}

IsIndexKey(key) == key # <<>> /\ (\A i \in 1..Len(key) : IsDigit(key[i]))
                   /\ (Len(key) = 1 \/ key[1] # "0")

\* obj[key] for a value obj that is neither undefined nor null
GetProperty(obj, key) ==
    CASE obj.t = "object" ->
            IF key \in DOMAIN obj.f THEN obj.f[key]
            ELSE IF Implode(key) \in PrototypeKeys THEN Unmodelled ELSE Undefined
      [] obj.t = "array" ->
            IF IsIndexKey(key)
              THEN (IF DigitsValue(key, 1, Len(key)) < Len(obj.e)
                    THEN obj.e[DigitsValue(key, 1, Len(key)) + 1] ELSE Undefined)
            ELSE IF Implode(key) = "length" THEN Int2Num(Len(obj.e))
            ELSE Unmodelled
      [] obj.t = "string" ->
            IF IsIndexKey(key)
              THEN (IF DigitsValue(key, 1, Len(key)) < Len(obj.s)
                    THEN Str(<<obj.s[DigitsValue(key, 1, Len(key)) + 1]>>) ELSE Undefined)
            ELSE IF Implode(key) = "length" THEN Int2Num(Len(obj.s))
            ELSE Unmodelled
      [] obj.t = "unmodelled" -> Unmodelled
      [] OTHER -> IF Implode(key) \in PrototypeKeys THEN Unmodelled ELSE Undefined

RECURSIVE PropPathLoop(_, _, _)
PropPathLoop(obj, parts, i) ==
    IF i > Len(parts) THEN obj
    ELSE LET next == GetProperty(obj, parts[i])
         IN IF next.t = "unmodelled" THEN Unmodelled
            ELSE IF ~Truthy(next) THEN Undefined
            ELSE PropPathLoop(next, parts, i + 1)

\* VisFormatUtils.getObjPropValue(obj, propPath)
getObjPropValue(obj, propPath) ==
    IF ~Truthy(obj) THEN Undefined
    ELSE IF propPath.t # "string" THEN Throw
    ELSE PropPathLoop(obj, SplitDot(propPath.s, 1, <<>>), 1)

(***************************************************************************)
(* JSON text                                                               *)
(***************************************************************************)
RECURSIVE TrimEnd(_)
TrimEnd(s) == IF s # <<>> /\ IsSpace(s[Len(s)]) THEN TrimEnd(Slice(s, 1, Len(s) - 1)) ELSE s

Trim(s) == TrimEnd(Slice(s, SkipSpaces(s, 1), Len(s)))

\* a JSON number: -? digits (. digits)?, no leading zeros or signs
IsJSONNumber(s) ==
    LET i1 == IF s # <<>> /\ s[1] = "-" THEN 2 ELSE 1
        i2 == DigitsEnd(s, i1)
        hasDot == i2 <= Len(s) /\ s[i2] = "."
        i3 == IF hasDot THEN DigitsEnd(s, i2 + 1) ELSE i2
    IN /\ i2 > i1
       /\ (i2 - i1 = 1 \/ s[i1] # "0")
       /\ (hasDot => i3 > i2 + 1)
       /\ i3 = Len(s) + 1

\* where the parser stands: the value read and the index after it; the
\* value is Throw for a SyntaxError and Unmodelled outside the modelled texts
JSONRead(v, i) == [v |-> v, i |-> i]
JSONFailed(r) == r.v.t \in {"throw", "unmodelled"}

\* a string literal from the character after its opening quote on; of the
\* escapes, those of the quote, the backslash and the slash are modelled
RECURSIVE JSONString(_, _, _)
JSONString(s, i, acc) ==
    IF i > Len(s) THEN JSONRead(Throw, i)
    ELSE IF s[i] = "\"" THEN JSONRead(Str(acc), i + 1)
    ELSE IF s[i] = "\\"
      THEN (IF i + 1 > Len(s) THEN JSONRead(Throw, i)
            ELSE IF s[i + 1] \in {"\"", "\\", "/"} THEN JSONString(s, i + 2, Append(acc, s[i + 1]))
            ELSE IF s[i + 1] \in {"b", "f", "n", "r", "t", "u"} THEN JSONRead(Unmodelled, i)
            ELSE JSONRead(Throw, i))
    ELSE JSONString(s, i + 1, Append(acc, s[i]))

\* first index at or after i that is no character of a number
RECURSIVE JSONNumberEnd(_, _)
JSONNumberEnd(s, i) ==
    IF i <= Len(s) /\ (IsDigit(s[i]) \/ s[i] \in {"-", "+", ".", "e", "E"})
    THEN JSONNumberEnd(s, i + 1) ELSE i

\* a number that starts at i and ends before j; exponents are not modelled
JSONNumber(s, i, j) ==
    IF IsJSONNumber(Slice(s, i, j - 1)) THEN JSONRead(ParseFloatString(Slice(s, i, j - 1)), j)
    ELSE IF j > i /\ (Includes(Slice(s, i, j - 1), <<"e">>) \/ Includes(Slice(s, i, j - 1), <<"E">>))
      THEN JSONRead(Unmodelled, i)
    ELSE JSONRead(Throw, i)

RECURSIVE JSONValue(_, _)
RECURSIVE JSONElements(_, _, _, _)
RECURSIVE JSONMembers(_, _, _, _)

\* after the element r of an array: a comma and the next element, or the
\* closing bracket at j
JSONAfterElement(s, acc, r, j) ==
    IF JSONFailed(r) THEN r
    ELSE IF j > Len(s) THEN JSONRead(Throw, j)
    ELSE IF s[j] = "," THEN JSONElements(s, j + 1, Append(acc, r.v), FALSE)
    ELSE IF s[j] = "]" THEN JSONRead(Arr(Append(acc, r.v)), j + 1)
    ELSE JSONRead(Throw, j)

JSONElement(s, acc, r) ==
    JSONAfterElement(s, acc, r, IF JSONFailed(r) THEN 0 ELSE SkipSpaces(s, r.i))

\* the elements of an array from i on
JSONElements(s, i, acc, first) ==
    IF first /\ i <= Len(s) /\ s[i] = "]" THEN JSONRead(Arr(acc), i + 1)
    ELSE JSONElement(s, acc, JSONValue(s, i))

\* after the member k: r of an object: a comma and the next member, or the
\* closing brace at j
JSONAfterMember(s, f, k, r, j) ==
    IF JSONFailed(r) THEN r
    ELSE IF j > Len(s) THEN JSONRead(Throw, j)
    ELSE IF s[j] = "," THEN JSONMembers(s, SkipSpaces(s, j + 1), (k.v.s :> r.v) @@ f, FALSE)
    ELSE IF s[j] = "}" THEN JSONRead(Obj((k.v.s :> r.v) @@ f), j + 1)
    ELSE JSONRead(Throw, j)

JSONMemberValue(s, f, k, r) ==
    JSONAfterMember(s, f, k, r, IF JSONFailed(r) THEN 0 ELSE SkipSpaces(s, r.i))

\* after the key k of a member: the colon at j and the value
JSONAfterKey(s, f, k, j) ==
    IF JSONFailed(k) THEN k
    ELSE IF j > Len(s) \/ s[j] # ":" THEN JSONRead(Throw, j)
    ELSE JSONMemberValue(s, f, k, JSONValue(s, j + 1))

JSONMember(s, f, k) ==
    JSONAfterKey(s, f, k, IF JSONFailed(k) THEN 0 ELSE SkipSpaces(s, k.i))

\* the members of an object from i on
JSONMembers(s, i, f, first) ==
    IF first /\ i <= Len(s) /\ s[i] = "}" THEN JSONRead(Obj(f), i + 1)
    ELSE IF i > Len(s) \/ s[i] # "\"" THEN JSONRead(Throw, i)
    ELSE JSONMember(s, f, JSONString(s, i + 1, <<>>))

JSONValueAt(s, i) ==
    IF i > Len(s) THEN JSONRead(Throw, i)
    ELSE IF s[i] = "{" THEN JSONMembers(s, SkipSpaces(s, i + 1), <<>>, TRUE)
    ELSE IF s[i] = "[" THEN JSONElements(s, i + 1, <<>>, TRUE)
    ELSE IF s[i] = "\"" THEN JSONString(s, i + 1, <<>>)
    ELSE IF IsPrefixAt(s, S_null, i) THEN JSONRead(Null, i + 4)
    ELSE IF IsPrefixAt(s, S_true, i) THEN JSONRead(Bool(TRUE), i + 4)
    ELSE IF IsPrefixAt(s, S_false, i) THEN JSONRead(Bool(FALSE), i + 5)
    ELSE JSONNumber(s, i, JSONNumberEnd(s, i))

\* a value with the white space before it
JSONValue(s, i) == JSONValueAt(s, SkipSpaces(s, i))

\* the text is one value and white space
JSONWhole(text, r) ==
    IF JSONFailed(r) THEN r.v
    ELSE IF SkipSpaces(text, r.i) <= Len(text) THEN Throw
    ELSE r.v

\* JSON.parse(text): Throw is a SyntaxError.  Exponents and the escapes
\* other than those of the quote, the backslash and the slash are outside
\* the modelled domain.
JSONParse(text) == JSONWhole(text, JSONValue(text, 1))

RECURSIVE JSONStringify(_)
RECURSIVE StringifyElements(_, _)
StringifyElements(e, i) ==
    IF i > Len(e) THEN <<>>
    ELSE (IF i > 1 THEN <<",">> ELSE <<>>) \o JSONStringify(e[i]) \o StringifyElements(e, i + 1)

\* JSON.stringify(v) for a value other than undefined; text that needs
\* escapes and objects with several keys are outside the modelled domain
\* (marked by the one-element text "?")
JSONStringify(v) ==
    CASE v.t \in {"null", "NaN", "undefined"} -> S_null
      [] v.t = "number" -> NumToString(v.n, v.d)
      [] v.t = "boolean" -> IF v.b THEN S_true ELSE S_false
      [] v.t = "string" ->
            IF Includes(v.s, <<"\"">>) \/ Includes(v.s, <<"\\">>) THEN <<"?">>
            ELSE <<"\"">> \o v.s \o <<"\"">>
      [] v.t = "array" -> <<"[">> \o StringifyElements(v.e, 1) \o <<"]">>
      [] v.t = "object" ->
            IF DOMAIN v.f = {} THEN <<"{", "}">>
            ELSE IF Cardinality(DOMAIN v.f) = 1
              THEN LET k == CHOOSE q \in DOMAIN v.f : TRUE
                   IN IF v.f[k].t = "undefined" THEN <<"{", "}">>
                      ELSE <<"{", "\"">> \o k \o <<"\"", ":">> \o JSONStringify(v.f[k]) \o <<"}">>
            ELSE <<"?">>
      [] OTHER -> <<"?">>

(***************************************************************************)
(* VisFormatUtils                                                          *)
(***************************************************************************)
S_widgetOidDot == <<"w", "i", "d", "g", "e", "t", "O", "i", "d", ".">>
S_widgetDot == <<"w", "i", "d", "g", "e", "t", ".">>

\* values[key] on the live-state map (a function from state ids to values)
GetState(values, key) ==
    IF key \in DOMAIN values THEN values[key]
    ELSE IF Implode(key) \in PrototypeKeys THEN Unmodelled ELSE Undefined

\* VisFormatUtils.getSpecialValues(name, view, wid, widgetData)
getSpecialValues(vis, name, view, wid, widgetData) ==
    LET key == IF name.t = "string" THEN Implode(name.s) ELSE "" IN
    CASE key = "username.val" -> vis.user
      [] key = "login.val" -> vis.loginRequired
      [] key = "instance.val" -> vis.instance
      [] key = "language.val" -> vis.language
      [] key = "wid.val" -> wid
      [] key = "wname.val" ->
            IF widgetData.t \in {"undefined", "null"} THEN wid
            ELSE IF Truthy(widgetData.name) THEN widgetData.name ELSE wid
      [] key = "view.val" -> view
      [] OTHER -> Undefined

IsWordChar(c) == IsDigit(c) \/ c = "_" \/ (\E k \in 1..26 : LowerCase[k] = c \/ UpperCase[k] = c)

\* s.replace(/\B(?=(\d{3})+(?!\d))/g, sep): sep is inserted before s[i]
\* when s[i-1] and s[i] are both word characters and the run of digits that
\* starts at s[i] has a length that is a positive multiple of 3
RECURSIVE GroupDigits(_, _, _)
GroupDigits(s, sep, i) ==
    IF i > Len(s) THEN <<>>
    ELSE LET run == DigitsEnd(s, i) - i
             here == i > 1 /\ IsWordChar(s[i - 1]) /\ run >= 3 /\ run % 3 = 0
         IN (IF here THEN sep ELSE <<>>) \o <<s[i]>> \o GroupDigits(s, sep, i + 1)

\* format[i] for the separator pair: a character of a string, undefined otherwise
CharAt(format, i) ==
    IF format.t = "string" /\ i + 1 <= Len(format.s) THEN Str(<<format.s[i + 1]>>)
    ELSE Undefined

\* VisFormatUtils.formatValue(value, decimals, _format)
formatValue(value, decimals, _format) ==
    LET shifted == TypeOf(decimals) # "number"
        decimals1 == IF shifted THEN Int2Num(2) ELSE decimals
        _format1 == IF shifted THEN Int2Num(2) ELSE _format
        format == IF _format1.t \in {"undefined", "null"} THEN Str(<<".", ",">>) ELSE _format1
        value1 == IF TypeOf(value) # "number" THEN ParseFloat(value) ELSE value
        fixed == ToFixed(value1, IF Truthy(decimals1) THEN decimals1 ELSE Int2Num(0))
    IN IF value1.t = "unmodelled" \/ decimals1.t = "unmodelled" THEN Unmodelled
       ELSE IF value1.t = "NaN" THEN Str(<<>>)
       ELSE IF fixed.t # "string" THEN fixed
       ELSE Str(GroupDigits(StringReplace(fixed.s, JSToString(CharAt(format, 0)),
                                          JSToString(CharAt(format, 1))),
                            JSToString(CharAt(format, 0)), 1))

(***************************************************************************)
(* Dates.  A Date is the instant sec seconds and ms milliseconds after the *)
(* epoch.  The host's zone is a fixed offset: getTimezoneOffset() returns  *)
(* the same number of minutes for every instant.  An integer too large for *)
(* the numbers above is written Thousands(q, r), the number 1000 q + r.    *)
(***************************************************************************)
Thousands(q, r) == [t |-> "thousands", q |-> q, r |-> r]
Date(sec, ms) == [t |-> "date", sec |-> sec, ms |-> ms]

\* 2000-01-01 00:00:00 at UTC+1 in seconds (line 231); line 236 compares
\* with 1000 times as much
DurationLimit == 946681200

IsNumber(v) == v.t \in {"number", "thousands"}

\* parseInt(dateObj, 10) === dateObj (lines 228-229)
IsIntegerNumber(v) == v.t = "thousands" \/ (v.t = "number" /\ v.d = 1)

\* j < 946681200 (line 231)
BelowDurationLimit(v) ==
    IF v.t = "thousands"
    THEN v.q <= DurationLimit \div 1000 /\ v.q * 1000 + v.r < DurationLimit
    ELSE v.n < DurationLimit

\* j < 946681200000 (line 236)
BelowSecondsLimit(v) == IF v.t = "thousands" THEN v.q < DurationLimit ELSE TRUE

\* new Date(ms) for a number of milliseconds, fractions cut off
DateOfMilliseconds(v) ==
    IF v.t = "thousands" THEN Date(v.q, v.r)
    ELSE LET m == Sign(v.n) * (Abs(v.n) \div v.d)
         IN Date(m \div 1000, m % 1000)

\* new Date(j * 1000) (line 236)
DateOfSeconds(v) == IF v.t = "thousands" THEN Date(v.q * 1000 + v.r, 0) ELSE Date(v.n, 0)

\* the calendar fields of the day `days` days after 1970-01-01
CivilFromDays(days) ==
    LET z == days + 719468
        era == z \div 146097
        doe == z - era * 146097
        yoe == (doe - doe \div 1460 + doe \div 36524 - doe \div 146096) \div 365
        doy == doe - (365 * yoe + yoe \div 4 - yoe \div 100)
        mp == (5 * doy + 2) \div 153
        m == IF mp < 10 THEN mp + 3 ELSE mp - 9
    IN [year |-> yoe + era * 400 + (IF m <= 2 THEN 1 ELSE 0), month |-> m,
        day |-> doy - (153 * mp + 2) \div 5 + 1]

\* getFullYear(), getMonth() + 1, getDate(), getHours(), getMinutes(),
\* getSeconds(), getMilliseconds() of a Date in the zone tz minutes behind UTC
LocalFields(date, tz) ==
    LET local == date.sec - tz * 60
        civil == CivilFromDays(local \div 86400)
        second == local % 86400
    IN [year |-> civil.year, month |-> civil.month, day |-> civil.day,
        hours |-> second \div 3600, minutes |-> (second % 3600) \div 60,
        seconds |-> second % 60, milliseconds |-> date.ms]

\* the Cyrillic letters of the format characters, by code point
Cyr_G == "U+0413"
Cyr_M == "U+041C"
Cyr_D == "U+0414"
Cyr_ch == "U+0447"
Cyr_m == "U+043C"
Cyr_s == "U+0441"

\* validFormatChars (line 246)
validFormatChars == <<"Y", "J", Cyr_G, "M", Cyr_M, "D", "T", Cyr_D, "h", "S", Cyr_ch,
                      "m", Cyr_m, "s", Cyr_s>>

\* the case labels of _put (lines 132-194)
YearTokens == {<<"Y", "Y", "Y", "Y">>, <<"J", "J", "J", "J">>, <<Cyr_G, Cyr_G, Cyr_G, Cyr_G>>,
               <<"Y", "Y">>, <<"J", "J">>, <<Cyr_G, Cyr_G>>}
MonthTokens == {<<"M", "M">>, <<"M">>, <<Cyr_M, Cyr_M>>, <<Cyr_M>>}
DayTokens == {<<"D", "D">>, <<"T", "T">>, <<"D">>, <<"T">>, <<Cyr_D, Cyr_D>>, <<Cyr_D>>}
HourTokens == {<<"h", "h">>, <<"S", "S">>, <<"h">>, <<"S">>, <<Cyr_ch, Cyr_ch>>, <<Cyr_ch>>}
MinuteTokens == {<<"m", "m">>, <<"m">>, <<Cyr_m, Cyr_m>>, <<Cyr_m>>}
SecondTokens == {<<"s", "s">>, <<"s">>, <<"c", "c">>, <<"c">>}
MillisecondTokens == {<<"s", "s", "s">>, <<Cyr_s, Cyr_s, Cyr_s>>}

\* v < 10 && ss.length === 2 ? `0${v}` : v, as text
Padded(ss, v) ==
    IF v < 10 /\ Len(ss) = 2 THEN <<"0">> \o NatToString(v) ELSE NatToString(v)

\* the year as _put writes it (lines 138-141)
YearText(ss, year) == NatToString(IF Len(ss) = 2 THEN year % 100 ELSE year)

\* the milliseconds as _put writes them (lines 195-201)
MillisecondsText(v) ==
    IF v < 10 THEN <<"0", "0">> \o NatToString(v)
    ELSE IF v < 100 THEN <<"0">> \o NatToString(v)
    ELSE NatToString(v)

\* VisFormatUtils._put(ss, dateObj, result) (lines 128-209); fields are the
\* fields of dateObj
_put(ss, fields, result) ==
    result \o (CASE ss \in YearTokens -> YearText(ss, fields.year)
                 [] ss \in MonthTokens -> Padded(ss, fields.month)
                 [] ss \in DayTokens -> Padded(ss, fields.day)
                 [] ss \in HourTokens -> Padded(ss, fields.hours)
                 [] ss \in MinuteTokens -> Padded(ss, fields.minutes)
                 [] ss \in SecondTokens -> Padded(ss, fields.seconds)
                 [] ss \in MillisecondTokens -> MillisecondsText(fields.milliseconds)
                 [] OTHER -> <<>>)

IsFormatChar(c) == \E k \in 1..Len(validFormatChars) : validFormatChars[k] = c

\* the loop of formatDate over the pattern and the last _put (lines 250-260)
RECURSIVE PatternLoop(_, _, _, _, _)
PatternLoop(format, i, ss, result, fields) ==
    IF i > Len(format) THEN _put(ss, fields, result)
    ELSE IF IsFormatChar(format[i])
      THEN PatternLoop(format, i + 1, ss \o <<format[i]>>, result, fields)
    ELSE PatternLoop(format, i + 1, <<>>, _put(ss, fields, result) \o <<format[i]>>, fields)

DurationShiftTwice(date, tz) == Date(date.sec + 2 * tz * 60, date.ms)

\* dateObj.setMilliseconds(dateObj.getMilliseconds() +
\* dateObj.getTimezoneOffset() * 60 * 1000) (line 244)
DurationShift(date, tz) == Date(date.sec + tz * 60, date.ms)

\* String.prototype.toLowerCase
RECURSIVE ToLowerCase(_)
ToLowerCase(s) ==
    IF s = <<>> THEN <<>>
    ELSE (IF \E k \in 1..26 : UpperCase[k] = Head(s)
          THEN <<LowerCase[CHOOSE k \in 1..26 : UpperCase[k] = Head(s)]>>
          ELSE <<Head(s)>>) \o ToLowerCase(Tail(s))

S_duration == <<"d", "u", "r", "a", "t", "i", "o", "n">>
S_defaultDateFormat == <<"D", "D", ".", "M", "M", ".", "Y", "Y", "Y", "Y">>

\* formatDate from line 242 on: the pattern is chosen, the duration is
\* shifted, the pattern is filled in
FormatDateObject(vis, tz, date, isDuration, _format) ==
    LET format == IF Truthy(_format) THEN _format
                  ELSE IF Truthy(vis.dateFormat) THEN vis.dateFormat
                  ELSE Str(S_defaultDateFormat)
    IN IF format.t # "string" THEN Unmodelled
       ELSE Str(PatternLoop(format.s, 1, <<>>, <<>>,
                            LocalFields(IF isDuration THEN DurationShift(date, tz) ELSE date,
                                        tz)))

DateOfIntegerAsMilliseconds(dateObj) == DateOfMilliseconds(dateObj)

\* the Date an integer stands for (lines 231-237)
DateOfInteger(dateObj) ==
    IF BelowDurationLimit(dateObj) THEN DateOfMilliseconds(dateObj)
    ELSE IF BelowSecondsLimit(dateObj) THEN DateOfSeconds(dateObj)
    ELSE DateOfMilliseconds(dateObj)

\* formatDate from line 221 on, isDuration a boolean
FormatDateValue(vis, tz, dateObj, isDuration, _format) ==
    IF dateObj.t = "unmodelled" THEN Unmodelled
    ELSE IF ~Truthy(dateObj) THEN Str(<<>>)
    ELSE IF dateObj.t = "date" THEN FormatDateObject(vis, tz, dateObj, isDuration, _format)
    ELSE IF ~IsNumber(dateObj) THEN Unmodelled
    ELSE IF IsIntegerNumber(dateObj)
      THEN FormatDateObject(vis, tz, DateOfInteger(dateObj),
                            isDuration \/ BelowDurationLimit(dateObj), _format)
    ELSE FormatDateObject(vis, tz, DateOfMilliseconds(dateObj), isDuration, _format)

\* VisFormatUtils.formatDate(dateObj, isDuration, _format) (lines 211-262)
\* in the zone tz.  A string is turned into a Date by the host's parser,
\* which is not modelled.
formatDate(vis, tz, dateObj, isDuration, _format) ==
    IF (isDuration.t = "string" /\ ToLowerCase(isDuration.s) = S_duration)
       \/ isDuration = Bool(TRUE)
      THEN FormatDateValue(vis, tz, dateObj, TRUE, _format)
    ELSE IF TypeOf(isDuration) # "boolean"
      THEN FormatDateValue(vis, tz, dateObj, FALSE, isDuration)
    ELSE FormatDateValue(vis, tz, dateObj, FALSE, _format)

\* the instant a Date object the caller passed holds after formatDate: a
\* Date passes lines 224-241 as it is, so that line 244 shifts the caller's
\* object.  Any other input is a primitive, and what is shifted is the
\* Date made of it
DateObjectAfter(tz, dateObj, isDuration) ==
    IF dateObj.t = "date"
       /\ ((isDuration.t = "string" /\ ToLowerCase(isDuration.s) = S_duration)
           \/ isDuration = Bool(TRUE))
    THEN DurationShift(dateObj, tz)
    ELSE dateObj

(***************************************************************************)
(* formatMomentDate.  The text the moment library renders is not computed: *)
(* it is named by the instant and the pattern handed to format().          *)
(***************************************************************************)
\* moment(dateObj).format(format) (lines 116, 119, 122)
MomentFormat(date, format) ==
    <<"moment(">> \o NumToString(date.sec, 1) \o <<".">> \o NatToString(date.ms)
        \o <<").format(">> \o format \o <<")">>

\* this.vis._(word): the word in the language of the project
Translate(vis, word) ==
    IF vis.language = Str(<<"d", "e">>)
    THEN (IF word = <<"T", "o", "d", "a", "y">> THEN <<"H", "e", "u", "t", "e">>
          ELSE <<"G", "e", "s", "t", "e", "r", "n">>)
    ELSE word

\* format.replace('dddd', word).replace('ddd', word).replace('dd', word)
ReplaceWeekday(format, word) ==
    StringReplace(StringReplace(StringReplace(format, <<"d", "d", "d", "d">>, word),
                                <<"d", "d", "d">>, word),
                  <<"d", "d">>, word)

\* the day of an instant in the zone tz, as isSame(..., 'day') compares it
LocalDay(date, tz) == (date.sec - tz * 60) \div 86400

\* lines 113-120: result is assigned on the current day and on the day
\* before, and on no other day
TodayOrYesterday(today, yesterday, rendering) ==
    IF yesterday THEN Str(rendering)
    ELSE IF today THEN Str(rendering)
    ELSE Undefined

\* formatMomentDate from line 109 on, dateObj a moment object; isMoment is
\* false for a Date, which has no isSame
MomentDateObject(vis, tz, now, date, isMoment, _format, useTodayOrYesterday) ==
    LET format == IF Truthy(_format) THEN _format
                  ELSE IF Truthy(vis.dateFormat) THEN vis.dateFormat
                  ELSE Str(S_defaultDateFormat)
        today == LocalDay(date, tz) = LocalDay(now, tz)
        yesterday == LocalDay(date, tz) = LocalDay(now, tz) - 1
    IN IF format.t # "string" THEN Unmodelled
       ELSE IF ~Truthy(useTodayOrYesterday) THEN Str(MomentFormat(date, format.s))
       ELSE IF ~isMoment THEN Throw
       ELSE TodayOrYesterday(today, yesterday,
              MomentFormat(date,
                 IF yesterday
                 THEN ReplaceWeekday(format.s, Translate(vis, <<"Y", "e", "s", "t", "e", "r", "d", "a", "y">>))
                 ELSE IF today
                   THEN ReplaceWeekday(format.s, Translate(vis, <<"T", "o", "d", "a", "y">>))
                 ELSE format.s))

\* VisFormatUtils.formatMomentDate(dateObj, _format, useTodayOrYesterday,
\* moment) (lines 86-126) in the zone tz at the instant now.  A string is
\* parsed by the library, which is not modelled.
formatMomentDate(vis, tz, now, dateObj, _format, useTodayOrYesterday) ==
    IF dateObj.t = "unmodelled" THEN Unmodelled
    ELSE IF ~Truthy(dateObj) THEN Str(<<>>)
    ELSE IF dateObj.t = "date"
      THEN MomentDateObject(vis, tz, now, dateObj, FALSE, _format, useTodayOrYesterday)
    ELSE IF ~IsNumber(dateObj) THEN Unmodelled
    ELSE MomentDateObject(vis, tz, now,
                          IF IsIntegerNumber(dateObj) THEN DateOfInteger(dateObj)
                          ELSE DateOfMilliseconds(dateObj),
                          TRUE, _format, useTodayOrYesterday)

\* String.prototype.split(',')
RECURSIVE SplitComma(_, _, _)
SplitComma(s, i, cur) ==
    IF i > Len(s) THEN <<cur>>
    ELSE IF s[i] = "," THEN <<cur>> \o SplitComma(s, i + 1, <<>>)
    ELSE SplitComma(s, i + 1, Append(cur, s[i]))

\* case 'momentDate' (lines 448-460)
MomentDateOperation(ctx, value, arg) ==
    IF arg.t \in {"undefined", "null"} THEN value
    ELSE IF arg.t # "string" THEN Throw
    ELSE LET params == SplitComma(arg.s, 1, <<>>) IN
         IF Len(params) = 1
           THEN formatMomentDate(ctx.vis, ctx.timezone, ctx.now, value, Str(params[1]),
                                 Bool(FALSE))
         ELSE IF Len(params) = 2
           THEN formatMomentDate(ctx.vis, ctx.timezone, ctx.now, value, Str(params[1]),
                                 Str(params[2]))
         ELSE Str(<<"e", "r", "r", "o", "r">>)

\* the state an argument of eval refers to (lines 319-323)
ArgumentValue(ctx, arg) ==
    LET special == getSpecialValues(ctx.vis, arg.visOid, ctx.view, ctx.wid, ctx.widgetData) IN
    IF special.t \notin {"undefined", "null"} THEN special
    ELSE IF arg.visOid.t # "string" THEN Throw
    ELSE IF StartsWith(arg.visOid.s, S_widgetOidDot)
      THEN IF ctx.widget.t \in {"undefined", "null"} THEN Throw
           ELSE IF ctx.widget.data.t \in {"undefined", "null"} THEN Throw
           ELSE GetState(ctx.values,
                         JSToString(ctx.widget.data.oid) \o <<".">>
                         \o Slice(arg.visOid.s, Len(S_widgetOidDot) + 1, Len(arg.visOid.s)))
    ELSE GetState(ctx.values, arg.visOid.s)

SyntaxError == [t |-> "SyntaxError"]

\* the value of the string literal "text" in the generated script
QuotedLiteral(text) ==
    IF Includes(text, <<"\"">>) \/ Includes(text, <<"\\">>) THEN Unmodelled ELSE Str(text)

\* JSON text whose keys and strings are made of word characters.  Such a
\* text with a quote in it, put between the quotes of JSON.parse("...")
\* (line 335) and unquoted again (lines 359-361), ends the string literal of
\* the script at its first quote: the script does not compile
PlainJSONText(text) ==
    \A k \in 1..Len(text) :
        IsWordChar(text[k]) \/ text[k] \in {"{", "}", "[", "]", ":", ",", "\"", ".", "-"}

\* the value the generated declaration `const name = ...;` gives to name
\* (lines 324-348), after the unquoting of line 359-361
DeclaredValue(value) ==
    IF value.t \in {"null", "undefined", "unmodelled"} THEN value
    ELSE IF TypeOf(value) = "string"
      THEN LET parsed == JSONParse(value.s) IN
           IF parsed.t = "unmodelled" THEN Unmodelled
           ELSE IF parsed.t = "throw" THEN QuotedLiteral(value.s)
           ELSE IF TypeOf(parsed) = "object"
             THEN LET text == JSONStringify(parsed) IN
                  IF Includes(text, <<"?">>) THEN Unmodelled
                  ELSE IF Includes(text, <<"\"">>)
                    THEN (IF PlainJSONText(text) THEN SyntaxError ELSE Unmodelled)
                  ELSE JSONParse(text)
           ELSE QuotedLiteral(JSToString(parsed))
    ELSE IF TypeOf(value) = "object"
      THEN IF Includes(JSONStringify(value), <<"?">>) THEN Unmodelled ELSE CloneMember(value)
    ELSE value

IsModelledName(name) == name.t = "string" /\ Len(name.s) = 1
                        /\ \E k \in 1..26 : LowerCase[k] = name.s[1]

\* the named arguments of an eval operation, in order
NamedArguments(args) == SelectSeq(args, LAMBDA a : Truthy(a.name))

\* property access in the evaluated formula: a TypeError on undefined and null
FormulaProperty(obj, key) ==
    IF obj.t \in {"undefined", "null"} THEN Throw
    ELSE IF obj.t = "widget"
      THEN (CASE Implode(key) = "data" -> obj.data [] Implode(key) = "tpl" -> obj.tpl
              [] OTHER -> Undefined)
    ELSE IF obj.t = "widgetData"
      THEN (CASE Implode(key) = "name" -> obj.name [] Implode(key) = "oid" -> obj.oid
              [] OTHER -> Undefined)
    ELSE GetProperty(obj, key)

RECURSIVE FormulaPath(_, _, _)
FormulaPath(obj, parts, i) ==
    IF i > Len(parts) \/ obj.t \in {"throw", "unmodelled"} THEN obj
    ELSE FormulaPath(FormulaProperty(obj, parts[i]), parts, i + 1)

IsPathFormula(parts) ==
    \A i \in 1..Len(parts) :
        parts[i] # <<>> /\ \A k \in 1..Len(parts[i]) : IsWordChar(parts[i][k]) /\ ~IsDigit(parts[i][1])

\* new Function(string)() for the script made of the declarations decl
\* (a function from declared names to values) followed by `return formula;`.
\* Modelled formulas: none (undefined), a chain name.prop.prop of
\* identifiers, and text that is no expression at all.  Throw is any error
\* raised while compiling or running the script.
RunScript(decl, duplicate, formula) ==
    IF duplicate \/ (\E n \in DOMAIN decl : decl[n].t = "SyntaxError") THEN Throw
    ELSE IF \E n \in DOMAIN decl : decl[n].t = "unmodelled" THEN Unmodelled
    ELSE IF formula.t = "undefined" THEN Undefined
    ELSE IF formula.t # "string" THEN Unmodelled
    ELSE IF formula.s \in {<<"(">>, <<")">>, <<>>, <<"+">>} THEN Throw
    ELSE LET parts == SplitDot(formula.s, 1, <<>>) IN
         IF ~IsPathFormula(parts) THEN Unmodelled
         ELSE IF parts[1] \notin DOMAIN decl THEN Throw
         ELSE FormulaPath(decl[parts[1]], parts, 2)

\* what the script returned, as the operation leaves it in value (lines
\* 366-376): an object as its JSON text, 0 after an exception
EvalResult(result) ==
    IF result.t = "throw" THEN Int2Num(0)
    ELSE IF result.t = "unmodelled" THEN Unmodelled
    ELSE IF Truthy(result) /\ TypeOf(result) = "object"
      THEN (IF Includes(JSONStringify(result), <<"?">>) THEN Unmodelled
            ELSE Str(JSONStringify(result)))
    ELSE result

S_widget == <<"w", "i", "d", "g", "e", "t">>

\* the names the script declares and their values (lines 324-356): one per
\* named argument, and widget when the formula mentions it
Declarations(ctx, args, values, names, withWidget, w) ==
    [n \in (IF withWidget THEN names \cup {S_widget} ELSE names) |->
        IF withWidget /\ n = S_widget
        THEN CloneMember([w EXCEPT !.data = ctx.widgetData])
        ELSE DeclaredValue(values[CHOOSE a \in 1..Len(args) : args[a].name.s = n])]

\* case 'eval' once the arguments are resolved: values are the states of
\* the named arguments args, w is deepClone(widget)
EvalArguments(ctx, operation, args, values, w) ==
    LET names == {args[a].name.s : a \in 1..Len(args)}
        formula == operation.formula
        withWidget == Truthy(formula) /\ formula.t = "string" /\ Includes(formula.s, S_widgetDot)
        duplicate == Cardinality(names) # Len(args) \/ (withWidget /\ S_widget \in names)
    IN IF \E a \in 1..Len(args) : values[a].t = "throw" THEN Throw
       ELSE IF withWidget /\ (w.t = "throw" \/ w.t = "null") THEN Throw
       ELSE IF \E a \in 1..Len(args) : ~IsModelledName(args[a].name) THEN Unmodelled
       ELSE IF withWidget /\ w.t # "widget" THEN Unmodelled
       ELSE EvalResult(RunScript(Declarations(ctx, args, values, names, withWidget, w),
                                 duplicate, formula))

\* the named arguments args of the operation, resolved
EvalNamed(ctx, operation, args) ==
    EvalArguments(ctx, operation, args,
                  [a \in 1..Len(args) |-> ArgumentValue(ctx, args[a])],
                  deepClone(ctx.widget))

\* case 'eval' of formatBinding (lines 313-378)
EvalOperation(ctx, operation) ==
    IF operation.arg.t \in {"undefined", "null"} THEN Throw
    ELSE EvalNamed(ctx, operation,
                   IF operation.arg.t = "array" THEN NamedArguments(operation.arg.e)
                   ELSE <<>>)

\* operation.arg[parseInt(value, 10)] of case 'array'
ArrayElement(arg, index) ==
    IF arg.t \in {"undefined", "null"} THEN Throw
    ELSE IF index.t = "unmodelled" THEN Unmodelled
    ELSE IF index.t # "number" \/ index.n < 0 THEN Undefined
    ELSE IF arg.t = "array"
      THEN (IF index.n < Len(arg.e) THEN arg.e[index.n + 1] ELSE Undefined)
    ELSE IF arg.t = "string"
      THEN (IF index.n < Len(arg.s) THEN Str(<<arg.s[index.n + 1]>>) ELSE Undefined)
    ELSE Undefined

\* case 'json' of formatBinding (lines 482-493)
JsonOperation(value, arg) ==
    LET parsed == IF Truthy(value) /\ TypeOf(value) = "string" THEN JSONParse(value.s) ELSE value
        value1 == IF parsed.t = "throw" THEN value ELSE parsed
    IN IF value1.t = "unmodelled" THEN Unmodelled
       ELSE IF Truthy(value1) /\ TypeOf(value1) = "object" THEN getObjPropValue(value1, arg)
       ELSE value1

Hex2(s) == IF s.t = "string" /\ Len(s.s) < 2 THEN Str(<<"0">> \o s.s) ELSE s

UpperCased(s) == IF s.t = "string" THEN Str(ToUpperCase(s.s)) ELSE s

MinOperationSmaller(float, arg) ==
    IF ToNumber(arg).t = "unmodelled" \/ float.t = "unmodelled" THEN Unmodelled
    ELSE IF Less(ToNumber(arg), float) THEN arg ELSE float

\* case 'min' (lines 461-464): value = (value < operation.arg) ? operation.arg : value
MinOperation(float, arg) ==
    IF ToNumber(arg).t = "unmodelled" \/ float.t = "unmodelled" THEN Unmodelled
    ELSE IF Less(float, ToNumber(arg)) THEN arg ELSE float

\* case 'max' (lines 465-468): value = (value > operation.arg) ? operation.arg : value
MaxOperation(float, arg) ==
    IF ToNumber(arg).t = "unmodelled" \/ float.t = "unmodelled" THEN Unmodelled
    ELSE IF Less(ToNumber(arg), float) THEN arg ELSE float

\* the default case of the switch (lines 494-497): a warning, nothing else
UnknownOperatorResets(value) == Undefined

UnknownOperator(value) == value

OperatorTable == {"eval", "*", "/", "+", "-", "%", "round", "pow", "sqrt", "hex", "hex2",
                  "HEX", "HEX2", "value", "array", "date", "momentDate", "min", "max",
                  "random", "floor", "ceil", "json"}

\* one pass through the switch of formatBinding (lines 312-498): the value
\* after the operation, or Throw when the operation raises an exception.
\* random is the number Math.random() returns in this pass.
Switch(ctx, operation, value, float, random) ==
    LET op == operation.op
        arg == operation.arg
        noArg == arg.t \in {"undefined", "null"}
    IN IF value.t = "unmodelled" THEN Unmodelled
       ELSE CASE op = "eval" -> EvalOperation(ctx, operation)
         [] op \in {"*", "/", "+", "-", "%"} ->
               IF noArg THEN value ELSE Arith(op, float, ToNumber(arg))
         [] op = "round" ->
               IF arg.t = "undefined" THEN MathRound(float) ELSE ToFixed(float, arg)
         [] op = "pow" ->
               IF arg.t = "undefined" THEN Arith("*", float, float) ELSE Pow(float, ToNumber(arg))
         [] op = "sqrt" -> MathSqrt(float)
         [] op = "hex" -> ToString16(MathRound(float))
         [] op = "hex2" -> Hex2(ToString16(MathRound(float)))
         [] op = "HEX" -> UpperCased(ToString16(MathRound(float)))
         [] op = "HEX2" -> Hex2(UpperCased(ToString16(MathRound(float))))
         [] op = "value" -> formatValue(value, ParseInt(arg), Undefined)
         [] op = "array" -> ArrayElement(arg, ParseInt(value))
         [] op = "date" -> formatDate(ctx.vis, ctx.timezone, value, arg, Undefined)
         [] op = "momentDate" -> MomentDateOperation(ctx, value, arg)
         [] op = "min" -> MinOperation(float, arg)
         [] op = "max" -> MaxOperation(float, arg)
         [] op = "random" ->
               IF arg.t = "undefined" THEN random ELSE Arith("*", random, ToNumber(arg))
         [] op = "floor" -> MathFloor(float)
         [] op = "ceil" -> MathCeil(float)
         [] op = "json" -> JsonOperation(value, arg)
         [] OTHER -> UnknownOperator(value)

\* float is parseFloat(value), which the numeric cases start with
ApplyOperation(ctx, operation, value, random) ==
    Switch(ctx, operation, value, ParseFloat(value), random)

\* for (const operation of oid.operations) (lines 311-499), from the i-th
\* operation on
RECURSIVE OperationsLoopReversed(_, _, _, _)
OperationsLoopReversed(ctx, operations, i, value) ==
    IF i > Len(operations) \/ value.t \in {"throw", "unmodelled"} THEN value
    ELSE OperationsLoopReversed(ctx, operations, i + 1,
                                ApplyOperation(ctx, operations[Len(operations) + 1 - i],
                                               value, ctx.random))

RECURSIVE OperationsLoop(_, _, _, _)
OperationsLoop(ctx, operations, i, value) ==
    IF i > Len(operations) \/ value.t \in {"throw", "unmodelled"} THEN value
    ELSE OperationsLoop(ctx, operations, i + 1,
                        ApplyOperation(ctx, operations[i], value, ctx.random))

\* the value a binding starts from (lines 302-308)
ResolvedValue(ctx, oid) ==
    IF ~Truthy(oid.visOid) THEN Undefined
    ELSE LET value == getSpecialValues(ctx.vis, oid.visOid, ctx.view, ctx.wid, ctx.widgetData)
         IN IF value.t \in {"undefined", "null"} THEN GetState(ctx.values, oid.visOid.s)
            ELSE value

\* the value substituted for a binding (lines 302-500)
FinalValue(ctx, oid) ==
    IF ~Truthy(oid.operations) THEN ResolvedValue(ctx, oid)
    ELSE IF oid.operations.t # "array" THEN Throw
    ELSE OperationsLoop(ctx, oid.operations.e, 1, ResolvedValue(ctx, oid))

\* for (const oid of oids) (lines 301-502), from the i-th binding on
RECURSIVE BindingsLoop(_, _, _, _)

\* format = format.replace(oid.token, value) (line 501), and on to the next
\* binding
Replaced(ctx, oids, i, format, value) ==
    IF value.t \in {"throw", "unmodelled"} THEN value
    ELSE BindingsLoop(ctx, oids, i + 1,
                      StringReplace(format, JSToString(oids[i].token), JSToString(value)))

BindingsLoop(ctx, oids, i, format) ==
    IF i > Len(oids) THEN Str(format)
    ELSE Replaced(ctx, oids, i, format, FinalValue(ctx, oids[i]))

\* format.replace(/{{/g, '{').replace(/}}/g, '}') (line 504)
Unescape(format) == ReplaceDoubled(ReplaceDoubled(format, "{", 1), "}", 1)

\* the body of formatBinding after the call of this.extractBinding(format)
\* has returned oids (lines 301-506); iterating null is a TypeError
Unescaped(replaced) ==
    IF replaced.t = "string" THEN Str(Unescape(replaced.s)) ELSE replaced

formatBindingBody(ctx, format, oids) ==
    IF oids.t # "array" THEN Throw
    ELSE Unescaped(BindingsLoop(ctx, oids.e, 1, format.s))

(***************************************************************************)
(* The parser primitive, extractBinding of ./visUtils, is not part of the  *)
(* reviewed sources.  It is modelled from section 4.1 of the               *)
(* specification: a token is a brace-delimited reference, a doubled brace  *)
(* is a literal and never a token boundary, and a template without token   *)
(* yields an empty list or null.  One binding is reported per occurrence   *)
(* of a token; its state id is the reference followed by ".val".           *)
(***************************************************************************)
VARIABLES
    editMode,          \* this.vis.editMode, read on every call
    bindingsCache,     \* this.bindingsCache: template -> reference of the stored list
    heap,              \* the objects alive: reference -> binding list
    held,              \* references of lists that callers of extractBinding hold
    calls,             \* per template, calls counted by the instrumented stub
    parserCalls,       \* per template, invocations of the parser primitive
    call,              \* the last call: its function, its arguments, the mode
    ret,               \* what the last call returned, or Throw
    finals,            \* the values substituted by the last formatBinding (line 501)
    vis,               \* this.vis: user, loginRequired, instance, language, states
    timezone,          \* getTimezoneOffset() of the host: minutes behind UTC
    instrumented,      \* whether the parser stub counts its invocations
    parserNull,        \* the stub reports "no binding" as null (else as [])
    parserOperations,  \* the operations the stub attaches to the reference "p"
    project,           \* the project of the editor: view name -> view
    widgets,           \* the widgets object groups are pasted into before a save
    pastes             \* the calls of pasteGroup on widgets, in order

vars == <<editMode, bindingsCache, heap, held, calls, parserCalls, call, ret, finals,
          vis, timezone, instrumented, parserNull, parserOperations, project, widgets, pastes>>

S_dotVal == <<".", "v", "a", "l">>
S_p == <<"p">>

\* first index at or after i that holds a brace, Len(s) + 1 when there is none
RECURSIVE NextBrace(_, _)
NextBrace(s, i) == IF i > Len(s) \/ s[i] \in {"{", "}"} THEN i ELSE NextBrace(s, i + 1)

\* the tokens of a template, in order of occurrence
RECURSIVE Tokens(_, _)
Tokens(s, i) ==
    IF i > Len(s) THEN <<>>
    ELSE IF i < Len(s) /\ s[i] \in {"{", "}"} /\ s[i + 1] = s[i] THEN Tokens(s, i + 2)
    ELSE IF s[i] = "{"
      THEN LET j == NextBrace(s, i + 1) IN
           IF j <= Len(s) /\ s[j] = "}" /\ j > i + 1
             THEN <<SubSeq(s, i, j)>> \o Tokens(s, j + 1)
           ELSE Tokens(s, i + 1)
    ELSE Tokens(s, i + 1)

TokenBinding(token, operations) ==
    LET ref == SubSeq(token, 2, Len(token) - 1) IN
    Binding(Str(ref \o S_dotVal), Str(token), IF ref = S_p THEN operations ELSE Undefined)

\* extractBinding of ./visUtils
visUtilsExtractBinding(format, nullResult, operations) ==
    LET tokens == Tokens(format, 1) IN
    IF tokens = <<>> THEN (IF nullResult THEN Null ELSE Arr(<<>>))
    ELSE Arr([i \in 1..Len(tokens) |-> TokenBinding(tokens[i], operations)])

(***************************************************************************)
(* References.  extractBinding hands out objects; whether two of them are  *)
(* the same object is what the copies of deepClone decide.                 *)
(***************************************************************************)
Ref(r) == [t |-> "ref", r |-> r]

RECURSIVE FreshFrom(_, _)
FreshFrom(h, n) == IF n \in DOMAIN h THEN FreshFrom(h, n + 1) ELSE n

NewRef(h) == FreshFrom(h, 1)

\* a new object holding v
Allocate(h, v) == [heap |-> (NewRef(h) :> v) @@ h, ref |-> NewRef(h)]

deepCloneObjectShared(h, r) == [heap |-> h, ref |-> r]

\* deepClone applied to the object r: a new object with the copied contents
deepCloneObject(h, r) == Allocate(h, deepClone(h[r]))

\* this.bindingsCache[format] is truthy (line 268).  The cache is the plain
\* object of line 21: a format that names a property of Object.prototype
\* finds that property, a function or the prototype itself
CacheHit(cache, format) == format \in DOMAIN cache \/ Implode(format) \in PrototypeKeys

\* deepClone(this.bindingsCache[format]) (line 269) for a property of
\* Object.prototype: JSON.stringify of a function is undefined, which
\* JSON.parse rejects; the prototype is copied as an empty object
InheritedCopy(h, format) ==
    IF Implode(format) = "__proto__"
    THEN [ret |-> Ref(Allocate(h, Obj(<<>>)).ref), heap |-> Allocate(h, Obj(<<>>)).heap]
    ELSE [ret |-> Throw, heap |-> h]

\* the guard of the lookup (line 268)
CacheReadable(edit, cache, format) == ~edit /\ CacheHit(cache, format)

CacheWritableInEditMode(edit, result) == Truthy(result)

\* the guard of the store (line 275)
CacheWritable(edit, result) == Truthy(result) /\ ~edit

\* VisFormatUtils.extractBinding(format) (lines 264-280): the returned value
\* (null or a reference), the heap and the cache after the call, and whether
\* the parser primitive was invoked
extractBinding(h, cache, edit, format) ==
    IF ~Truthy(format)
      THEN [ret |-> Null, heap |-> h, bindingsCache |-> cache, parsed |-> FALSE]
    ELSE IF CacheReadable(edit, cache, format.s) /\ format.s \notin DOMAIN cache
      THEN [ret |-> InheritedCopy(h, format.s).ret, heap |-> InheritedCopy(h, format.s).heap,
            bindingsCache |-> cache, parsed |-> FALSE]
    ELSE IF CacheReadable(edit, cache, format.s)
      THEN LET c == deepCloneObject(h, cache[format.s])
           IN [ret |-> Ref(c.ref), heap |-> c.heap, bindingsCache |-> cache, parsed |-> FALSE]
    ELSE LET result == visUtilsExtractBinding(format.s, parserNull, parserOperations)
             a == Allocate(h, result)
         IN IF result.t = "null"
              THEN [ret |-> Null, heap |-> h, bindingsCache |-> cache, parsed |-> TRUE]
            ELSE IF CacheWritable(edit, result)
              THEN LET c == deepCloneObject(a.heap, a.ref)
                   IN [ret |-> Ref(a.ref), heap |-> c.heap,
                       bindingsCache |-> (format.s :> c.ref) @@ cache, parsed |-> TRUE]
            ELSE [ret |-> Ref(a.ref), heap |-> a.heap, bindingsCache |-> cache, parsed |-> TRUE]

\* the objects that can still be reached: those the cache and the callers hold
Collect(h, cache, refs) ==
    [r \in (DOMAIN h) \cap (refs \cup {cache[f] : f \in DOMAIN cache}) |-> h[r]]

(***************************************************************************)
(* Bounds and the inputs the calls are drawn from                          *)
(***************************************************************************)
\* calls counted by the instrumented stub before it stops the run
MaxCalls == 3
\* binding lists the callers of extractBinding hold at a time
MaxHeld == 1
\* operations of the binding on "p"
MaxOps == 2

T_empty == <<>>
T_plain == <<"a", "b">>
T_escaped == <<"{", "{", "a", "}", "}">>
T_a == <<"{", "a", "}">>
T_ab == <<"{", "a", "}", "{", "b", "}">>
T_aa == <<"{", "a", "}", "{", "a", "}">>
T_xa == <<"{", "{", "x", "}", "}", "{", "a", "}">>
T_p == <<"{", "p", "}">>
T_username == <<"{", "u", "s", "e", "r", "n", "a", "m", "e", "}">>
T_login == <<"{", "l", "o", "g", "i", "n", "}">>
T_instance == <<"{", "i", "n", "s", "t", "a", "n", "c", "e", "}">>
T_language == <<"{", "l", "a", "n", "g", "u", "a", "g", "e", "}">>
T_wid == <<"{", "w", "i", "d", "}">>
T_wname == <<"{", "w", "n", "a", "m", "e", "}">>
T_view == <<"{", "v", "i", "e", "w", "}">>

ReservedTemplates == {T_username, T_login, T_instance, T_language, T_wid, T_wname, T_view}
CacheTemplates == {T_empty, T_plain, T_p}
FormatTemplates == {T_empty, T_plain, T_escaped, T_a, T_ab, T_aa, T_xa, T_p} \cup ReservedTemplates

K_a == <<"a", ".", "v", "a", "l">>
K_b == <<"b", ".", "v", "a", "l">>
K_p == <<"p", ".", "v", "a", "l">>
ReservedKeys == {<<"u", "s", "e", "r", "n", "a", "m", "e", ".", "v", "a", "l">>, <<"l", "o", "g", "i", "n", ".", "v", "a", "l">>, <<"i", "n", "s", "t", "a", "n", "c", "e", ".", "v", "a", "l">>, <<"l", "a", "n", "g", "u", "a", "g", "e", ".", "v", "a", "l">>, <<"w", "i", "d", ".", "v", "a", "l">>, <<"w", "n", "a", "m", "e", ".", "v", "a", "l">>, <<"v", "i", "e", "w", ".", "v", "a", "l">>}

States(m) == [t |-> "states", m |-> m]

\* live-state maps: the values of a.val and p.val vary, b.val is "x", and the
\* map has an entry "m" under every reserved identifier when reserved holds
StateMap(a, pv, reserved) ==
    [k \in {K_a, K_b, K_p} \cup (IF reserved THEN ReservedKeys ELSE {}) |->
        IF k = K_a THEN a ELSE IF k = K_b THEN Str(<<"x">>) ELSE IF k = K_p THEN pv
        ELSE Str(<<"m">>)]

\* the JSON text {"k":{"m":5}}, which ends in two closing braces
NestedJSONText == Str(<<"{", "\"", "k", "\"", ":", "{", "\"", "m", "\"", ":", "5", "}", "}">>)

AValues == {Str(<<"v">>), Str(<<"{", "b", "}">>), Str(<<"$", "&">>), Int2Num(5), NestedJSONText}
PValues == {Num(-5, 2), Int2Num(9), Str(<<"x">>), Str(<<"{", "}">>), Undefined}

\* JSON texts of objects with the key k: {"k":0}, {"k":false}, {"k":""},
\* {"k":{"m":5}}, and the text {"k that does not parse
JSONValues ==
    {Str(<<"{", "\"", "k", "\"", ":">> \o v \o <<"}">>) :
        v \in {<<"0">>, S_false, <<"\"", "\"">>, <<"{", "\"", "m", "\"", ":", "5", "}">>}}
    \cup {Str(<<"{", "\"", "k">>)}
RandomOutcomes == {Int2Num(0), Num(1, 2)}

DefaultData == WidgetData(Str(<<"n">>), Str(<<"p">>))
DefaultWidget == Widget(DefaultData)
DefaultStates == States(StateMap(Str(<<"v">>), Int2Num(9), FALSE))

DefaultVis == [user |-> Str(<<"u">>), loginRequired |-> Bool(FALSE), instance |-> Int2Num(0),
               language |-> Str(<<"e", "n">>), dateFormat |-> Undefined,
               states |-> DefaultStates]

\* the project configures a date pattern
DatedVis == [DefaultVis EXCEPT !.dateFormat = Str(<<"D", ".", "M", ".", "Y", "Y">>)]

VisChoices == {DefaultVis,
               [DefaultVis EXCEPT !.user = Undefined],
               [DefaultVis EXCEPT !.loginRequired = Undefined],
               [DefaultVis EXCEPT !.instance = Null],
               [DefaultVis EXCEPT !.language = Undefined]}

DefaultOptions(format) ==
    [format |-> Str(format), view |-> Str(<<"v">>), wid |-> Str(<<"w">>),
     widget |-> DefaultWidget, widgetData |-> DefaultData, values |-> Undefined,
     random |-> Int2Num(0)]

\* what the calls of formatBinding are drawn from.  For a template on a and
\* b the value of a.val varies
PlainOptions ==
    {[DefaultOptions(f) EXCEPT !.values = States(StateMap(a, Int2Num(9), FALSE))] :
        f \in {T_empty, T_plain, T_escaped, T_a, T_ab, T_aa, T_xa}, a \in AValues}
    \cup {DefaultOptions(f) : f \in FormatTemplates}

\* for a reserved identifier the view, the widget id, the widget name and
\* the presence of map entries under the reserved identifiers vary
ReservedOptions ==
    {[DefaultOptions(f) EXCEPT !.view = v, !.wid = w, !.widgetData = d,
                              !.values = States(StateMap(Str(<<"v">>), Int2Num(9), r))] :
        f \in ReservedTemplates, v \in {Str(<<"v">>), Undefined},
        w \in {Str(<<"w">>), Undefined},
        d \in {DefaultData, WidgetData(Undefined, Str(<<"p">>)), Undefined},
        r \in BOOLEAN}

\* for the template on p the value of p.val, the widget and the random
\* number vary
PipelineOptions ==
    {[DefaultOptions(T_p) EXCEPT !.values = States(StateMap(Str(<<"v">>), pv, FALSE)),
                                !.widget = w, !.random = r] :
        pv \in PValues \cup JSONValues, w \in {DefaultWidget, Undefined, Widget(Undefined)},
        r \in RandomOutcomes}

ArgA(visOid) == Arr(<<Argument(Str(<<"a">>), Str(visOid))>>)

\* the operations the lists of the binding on p are made of: every kind of
\* the operator table that is modelled, and two kinds that are not in it
OperationSamples ==
    {Operation("eval", ArgA(K_p), Str(<<"a">>)),
     Operation("eval", ArgA(<<"w", "i", "d", "g", "e", "t", "O", "i", "d", ".", "v", "a", "l">>), Str(<<"a">>)),
     Operation("eval", Arr(<<>>), Str(<<"w", "i", "d", "g", "e", "t", ".", "d", "a", "t", "a", ".", "o", "i", "d">>)),
     Operation("eval", ArgA(K_p), Str(<<"(">>)),
     Operation("*", Int2Num(2), Undefined),
     Operation("/", Int2Num(2), Undefined),
     Operation("+", Int2Num(1), Undefined),
     Operation("-", Undefined, Undefined),
     Operation("%", Int2Num(2), Undefined),
     Operation("round", Undefined, Undefined),
     Operation("round", Int2Num(1), Undefined),
     Operation("pow", Undefined, Undefined),
     Operation("sqrt", Undefined, Undefined),
     Operation("hex", Undefined, Undefined),
     Operation("hex2", Undefined, Undefined),
     Operation("HEX", Undefined, Undefined),
     Operation("HEX2", Undefined, Undefined),
     Operation("value", Int2Num(1), Undefined),
     Operation("array", Arr(<<Str(<<"k">>), Str(<<"9">>)>>), Undefined),
     Operation("date", Str(<<"Y", "Y">>), Undefined),
     Operation("date", Undefined, Undefined),
     Operation("momentDate", Str(<<"D", "D", ".", "M", "M">>), Undefined),
     Operation("momentDate", Undefined, Undefined),
     Operation("min", Int2Num(0), Undefined),
     Operation("max", Int2Num(0), Undefined),
     Operation("random", Undefined, Undefined),
     Operation("floor", Undefined, Undefined),
     Operation("ceil", Undefined, Undefined),
     Operation("json", Str(<<"k">>), Undefined),
     Operation("json", Str(<<"k", ".", "m">>), Undefined),
     Operation("foo", Int2Num(2), Undefined),
     Operation("", Undefined, Undefined)}

\* the operations a list continues with after its second operation
CoreSamples == {op \in OperationSamples : op.op \in {"*", "foo"}}

\* the operation lists of the binding on p: at most MaxOps operations
OpLists ==
    UNION {{l \in [1..n -> OperationSamples] : \A i \in 3..n : l[i] \in CoreSamples} :
             n \in 0..MaxOps}

HasOp(operations, kinds) ==
    operations.t = "array" /\ \E i \in 1..Len(operations.e) : operations.e[i].op \in kinds

(***************************************************************************)
(* The engine as a state machine                                           *)
(***************************************************************************)
NoCall == [fn |-> "none", options |-> DefaultOptions(T_empty), editMode |-> FALSE,
           parsed |-> FALSE]

Count(c, k) == IF k \in DOMAIN c THEN c[k] ELSE 0

Increment(c, k) == (k :> (Count(c, k) + 1)) @@ c

RECURSIVE Total(_, _)
Total(c, keys) ==
    IF keys = {} THEN 0
    ELSE LET k == CHOOSE q \in keys : TRUE IN c[k] + Total(c, keys \ {k})

TotalCalls == Total(calls, DOMAIN calls)

\* the stub counts a call and, when the primitive ran, an invocation
Counted(format, parsed) ==
    IF instrumented
    THEN /\ calls' = Increment(calls, <<format.s, editMode>>)
         /\ parserCalls' = IF parsed THEN Increment(parserCalls, <<format.s, editMode>>)
                           ELSE parserCalls
    ELSE UNCHANGED <<calls, parserCalls>>

\* the instant moment() returns while a template is formatted:
\* 2005-03-02 01:04:05 UTC
Clock == Date(1109725445, 0)

Context(options) ==
    [vis |-> vis, view |-> options.view, wid |-> options.wid, widget |-> options.widget,
     widgetData |-> options.widgetData,
     values |-> (IF Truthy(options.values) THEN options.values ELSE vis.states).m,
     random |-> options.random, timezone |-> timezone, now |-> Clock]

\* new VisFormatUtils({ vis }) (lines 19-21)
\* no project is loaded
Unloaded ==
    /\ project = <<>>
    /\ widgets = <<>>
    /\ pastes = <<>>

Constructed ==
    /\ bindingsCache = <<>>
    /\ heap = <<>>
    /\ held = {}
    /\ calls = <<>>
    /\ parserCalls = <<>>
    /\ call = NoCall
    /\ ret = Undefined
    /\ finals = <<>>

\* a client calls extractBinding(format) and keeps the list it receives
ExtractBinding(format) ==
    LET e == extractBinding(heap, bindingsCache, editMode, format)
        got == IF e.ret.t = "ref" THEN {e.ret.r} ELSE {}
    IN /\ instrumented => TotalCalls < MaxCalls
       /\ Cardinality(held) < MaxHeld
       /\ bindingsCache' = e.bindingsCache
       /\ held' = held \cup got
       /\ heap' = Collect(e.heap, e.bindingsCache, held \cup got)
       /\ Counted(format, e.parsed)
       /\ call' = [fn |-> "extractBinding", options |-> DefaultOptions(format.s),
                   editMode |-> editMode, parsed |-> e.parsed]
       /\ ret' = IF e.ret.t = "ref" THEN [t |-> "ref", r |-> e.ret.r, v |-> e.heap[e.ret.r]]
                 ELSE e.ret
       /\ finals' = <<>>
       /\ UNCHANGED <<editMode, vis, timezone, instrumented, parserNull, parserOperations,
                       project, widgets, pastes>>

\* formatBinding returns result: oids is the list this.extractBinding gave
\* (e is that call's outcome)
FormatBindingReturns(options, e, oids, result) ==
    /\ instrumented => TotalCalls < MaxCalls
    /\ result.t # "unmodelled"
    /\ bindingsCache' = e.bindingsCache
    /\ heap' = Collect(e.heap, e.bindingsCache, held)
    /\ Counted(options.format, e.parsed)
    /\ call' = [fn |-> "formatBinding", options |-> options, editMode |-> editMode,
                parsed |-> e.parsed]
    /\ ret' = result
    /\ finals' = IF oids.t = "array"
                 THEN [i \in 1..Len(oids.e) |-> FinalValue(Context(options), oids.e[i])]
                 ELSE <<>>
    /\ UNCHANGED <<editMode, held, vis, timezone, instrumented, parserNull, parserOperations,
                   project, widgets, pastes>>

FormatBindingOids(options, e, oids) ==
    FormatBindingReturns(options, e, oids,
                         formatBindingBody(Context(options), options.format, oids))

FormatBindingExtracted(options, e) ==
    FormatBindingOids(options, e, IF e.ret.t = "ref" THEN e.heap[e.ret.r] ELSE e.ret)

\* formatBinding(options) (lines 290-507)
FormatBinding(options) ==
    FormatBindingExtracted(options,
                           extractBinding(heap, bindingsCache, editMode, options.format))

\* the authoring mode is switched on or off
SetEditMode(b) ==
    /\ editMode # b
    /\ editMode' = b
    /\ UNCHANGED <<bindingsCache, heap, held, calls, parserCalls, call, ret, finals, vis,
                   timezone, instrumented, parserNull, parserOperations, project, widgets,
                   pastes>>

\* what a caller may do to a list it received: empty it, give its first
\* binding other operations, give its first binding another token
Mutations(list) ==
    {Arr(<<>>)}
    \cup (IF list.e = <<>> THEN {}
          ELSE {Arr([list.e EXCEPT ![1].operations =
                        Arr(<<Operation("round", Undefined, Undefined)>>)]),
                Arr([list.e EXCEPT ![1].token = Str(<<"{", "b", "}">>)])})

\* a caller changes a list it received from extractBinding
Mutate(r) ==
    /\ r \in held
    /\ \E m \in Mutations(heap[r]) :
          /\ m # heap[r]
          /\ heap' = [heap EXCEPT ![r] = m]
    /\ UNCHANGED <<editMode, bindingsCache, held, calls, parserCalls, call, ret, finals, vis,
                   timezone, instrumented, parserNull, parserOperations, project, widgets,
                   pastes>>

\* a caller drops a list it received
Release(r) ==
    /\ r \in held
    /\ held' = held \ {r}
    /\ heap' = Collect(heap, bindingsCache, held \ {r})
    /\ UNCHANGED <<editMode, bindingsCache, calls, parserCalls, call, ret, finals, vis,
                   timezone, instrumented, parserNull, parserOperations, project, widgets,
                   pastes>>

\* the operations of the binding on p while the cache is observed: one with
\* an argument and one without
CachedOperations ==
    Arr(<<Operation("+", Int2Num(1), Undefined), Operation("-", Undefined, Undefined)>>)

\* the engine with an instrumented parser stub, used at run time and in the editor
Init ==
    /\ Constructed
    /\ Unloaded
    /\ editMode = FALSE
    /\ vis = DefaultVis
    /\ timezone = 0
    /\ instrumented = TRUE
    /\ parserNull \in BOOLEAN
    /\ parserOperations = CachedOperations

Next ==
    \/ \E f \in CacheTemplates : ExtractBinding(Str(f))
    \/ \E f \in CacheTemplates : FormatBinding(DefaultOptions(f))
    \/ \E b \in BOOLEAN : SetEditMode(b)
    \/ \E r \in held : Mutate(r)
    \/ \E r \in held : Release(r)

Spec == Init /\ [][Next]_vars

T_constructor == <<"c", "o", "n", "s", "t", "r", "u", "c", "t", "o", "r">>
T_proto == <<"_", "_", "p", "r", "o", "t", "o", "_", "_">>

\* templates looked up in the cache: with and without a binding, and two
\* that name properties of Object.prototype
LookupTemplates == {T_plain, T_a, T_ab, T_constructor, T_proto}

\* the engine as the clients of extractBinding see it
InitLookup ==
    /\ Constructed
    /\ Unloaded
    /\ editMode = FALSE
    /\ vis = DefaultVis
    /\ timezone = 0
    /\ instrumented = FALSE
    /\ parserNull \in BOOLEAN
    /\ parserOperations = Undefined

NextLookup ==
    \/ \E f \in LookupTemplates : ExtractBinding(Str(f))
    \/ \E b \in BOOLEAN : SetEditMode(b)
    \/ \E r \in held : Release(r)

SpecLookup == InitLookup /\ [][NextLookup]_vars

\* formatBinding as a function of its inputs: one template is formatted
\* again and again under changing contexts
InitFormat ==
    /\ Constructed
    /\ Unloaded
    /\ editMode \in BOOLEAN
    /\ vis \in VisChoices \cup {DatedVis}
    /\ timezone = 0
    /\ instrumented = FALSE
    /\ parserNull \in BOOLEAN
    /\ parserOperations \in {Undefined} \cup {Arr(l) : l \in OpLists}
    /\ vis = DatedVis => HasOp(parserOperations, {"date", "momentDate"})
    /\ parserOperations # Undefined
          => (~editMode /\ ~parserNull /\ vis \in {DefaultVis, DatedVis})

\* a template is formatted, and formatted again with the same options (the
\* second time from the cache)
NextFormat ==
    \E o \in (IF call.fn # "none" THEN {call.options}
              ELSE IF parserOperations # Undefined THEN PipelineOptions
              ELSE PlainOptions \cup ReservedOptions) :
        /\ o.random # Int2Num(0) => HasOp(parserOperations, {"random"})
        /\ o.widget # DefaultWidget => HasOp(parserOperations, {"eval"})
        /\ (o.values # Undefined /\ o.values.m[K_p] \in JSONValues)
              => HasOp(parserOperations, {"eval", "json"})
        /\ FormatBinding(o)

SpecFormat == InitFormat /\ [][NextFormat]_vars

(***************************************************************************)
(* The properties                                                          *)
(***************************************************************************)

\* what the latest call was made with
CallFormat == call.options.format.s
CallContext == Context(call.options)
Formatted == call.fn = "formatBinding"
Extracted == call.fn = "extractBinding"

\* the list the parser reports for a template
Parsed(format) == visUtilsExtractBinding(format, parserNull, parserOperations)

\* C1: formatBinding returns a string for every template, the empty
\* template and a template the parser reports null for included: it never
\* throws
C1_NeverThrows == Formatted => ret.t = "string"

\* C2: for a template in which the parser finds no binding formatBinding
\* returns the template with every doubled brace collapsed to a single one
C2_NoBindingUnescape ==
    (Formatted /\ Tokens(CallFormat, 1) = <<>>) => ret = Str(Unescape(CallFormat))

\* C3: outside edit mode the parser is invoked exactly once for each
\* template that has characters and that extractBinding was called with,
\* whatever the parser returned; in edit mode it is invoked on every call
C3_ParsedOncePerTemplate ==
    \A k \in DOMAIN calls :
        k[1] # <<>> => Count(parserCalls, k) = (IF k[2] THEN calls[k] ELSE 1)

\* the contents of the cache
CacheContents == [f \in DOMAIN bindingsCache |-> heap[bindingsCache[f]]]

\* what the latest call of extractBinding returned
Returned == IF ret.t = "ref" THEN ret.v ELSE ret

\* C4: a call of extractBinding in edit mode invokes the parser and returns
\* its result, and no step taken in edit mode changes the cache
C4_EditModeBypassesCache ==
    /\ [](Extracted /\ call.editMode /\ CallFormat # <<>>
            => call.parsed /\ Returned = Parsed(CallFormat))
    /\ [][editMode => CacheContents' = CacheContents]_vars

\* an edit-mode call for a template that was cached outside edit mode
C4_Witness ==
    /\ Extracted /\ call.editMode /\ call.parsed
    /\ CallFormat \in DOMAIN bindingsCache
    /\ Returned = Parsed(CallFormat)

\* C5: no list a caller holds is the cached list, and every cached list is
\* what the parser reported for its template, whatever the callers did to
\* the lists they hold
C5_CacheNotAliased ==
    \A f \in DOMAIN bindingsCache :
        /\ bindingsCache[f] \notin held
        /\ heap[bindingsCache[f]] = Parsed(f)

\* a caller changed the list it received from the cache
C5_Witness ==
    /\ Extracted /\ ~call.editMode /\ ~call.parsed
    /\ CallFormat \in DOMAIN bindingsCache
    /\ \E r \in held : ret.t = "ref" /\ ret.r = r /\ heap[r] # ret.v

\* the template with the k-th token replaced by the k-th value and each
\* doubled brace outside the tokens collapsed
RECURSIVE Substituted(_, _, _, _, _)
Substituted(format, i, tokens, k, values) ==
    IF i > Len(format) THEN <<>>
    ELSE IF k <= Len(tokens) /\ IsPrefixAt(format, tokens[k], i)
              /\ ~(format[i] = "{" /\ i < Len(format) /\ format[i + 1] = "{")
         THEN JSToString(values[k])
              \o Substituted(format, i + Len(tokens[k]), tokens, k + 1, values)
    ELSE IF i < Len(format) /\ format[i] \in {"{", "}"} /\ format[i + 1] = format[i]
         THEN <<format[i]>> \o Substituted(format, i + 2, tokens, k, values)
    ELSE <<format[i]>> \o Substituted(format, i + 1, tokens, k, values)

\* C6: every token of the template is replaced by the final value of its
\* own binding, also when the value of an earlier binding contains the
\* token of a later one
C6_OwnValue ==
    (/\ Formatted /\ ret.t = "string" /\ CallFormat \in {T_a, T_ab, T_aa, T_xa}
     /\ \A k \in 1..Len(finals) :
           /\ ~Includes(JSToString(finals[k]), <<"$">>)
           /\ ~Includes(JSToString(finals[k]), <<"}", "}">>))
        => ret.s = Substituted(CallFormat, 1, Tokens(CallFormat, 1), 1, finals)

\* C27: the text inserted for a binding is the string form of its final
\* value, character for character: the unescaping of doubled braces and
\* the substitution change nothing inside it (templates with one binding)
C27_ValueVerbatim ==
    (Formatted /\ ret.t = "string" /\ CallFormat \in {T_a, T_xa, T_p})
        => ret.s = Substituted(CallFormat, 1, Tokens(CallFormat, 1), 1, finals)

\* the context field a reserved identifier stands for
ContextField(format) ==
    CASE format = T_username -> vis.user
      [] format = T_login -> vis.loginRequired
      [] format = T_instance -> vis.instance
      [] format = T_language -> vis.language
      [] format = T_wid -> call.options.wid
      [] format = T_wname ->
            IF call.options.widgetData.t = "object"
               /\ Truthy(call.options.widgetData.name)
            THEN call.options.widgetData.name
            ELSE call.options.wid
      [] format = T_view -> call.options.view

\* C7: a binding on a reserved identifier has the value of the context
\* field, whatever that value is, and never the value of an entry of the
\* map under the same identifier
C7_ReservedFromContext ==
    (Formatted /\ ret.t = "string" /\ CallFormat \in ReservedTemplates)
        => finals = <<ContextField(CallFormat)>>

\* the operations of the binding on p are all of the kind eval
OnlyEval ==
    /\ parserOperations # Undefined
    /\ parserOperations.e # <<>>
    /\ \A i \in 1..Len(parserOperations.e) : parserOperations.e[i].op = "eval"

\* C8: eval never lets an exception leave formatBinding
C8_EvalNeverThrows == (Formatted /\ CallFormat = T_p /\ OnlyEval) => ret.t = "string"

\* the operations of a kind of the operator table
KnownOperations(operations) ==
    SelectSeq(operations, LAMBDA o : o.op \in OperatorTable)

\* the binding the latest call evaluated
CallBinding == Parsed(CallFormat).e[1]

\* C9: an operation of a kind outside the operator table leaves the value
\* as it is: the final value is the final value of the list without the
\* operations of unknown kinds
C9_UnknownOperatorIgnored ==
    (Formatted /\ CallFormat = T_p /\ parserOperations # Undefined)
        => finals = <<OperationsLoop(CallContext, KnownOperations(parserOperations.e), 1,
                                     ResolvedValue(CallContext, CallBinding))>>

\* an operation of an unknown kind, then one of the table that changes the
\* value
C9_Witness ==
    /\ Formatted /\ CallFormat = T_p /\ parserOperations # Undefined
    /\ ret.t = "string"
    /\ \E i, j \in 1..Len(parserOperations.e) :
          /\ i < j
          /\ parserOperations.e[i].op \notin OperatorTable
          /\ parserOperations.e[j].op \in OperatorTable
    /\ finals # <<ResolvedValue(CallContext, CallBinding)>>

\* the value after the first n operations: the n-th operation applied to
\* the value after the first n - 1
RECURSIVE Fold(_, _, _, _)
Fold(ctx, operations, n, value) ==
    IF n = 0 THEN value
    ELSE LET previous == Fold(ctx, operations, n - 1, value)
         IN  IF previous.t \in {"throw", "unmodelled"} THEN previous
             ELSE ApplyOperation(ctx, operations[n], previous, ctx.random)

Reversed(operations) ==
    [i \in 1..Len(operations) |-> operations[Len(operations) + 1 - i]]

\* C10: the operations of a binding are applied from left to right, each to
\* the value the one before it produced, the first to the resolved value
C10_LeftToRight ==
    (Formatted /\ CallFormat = T_p /\ parserOperations # Undefined)
        => finals = <<Fold(CallContext, parserOperations.e, Len(parserOperations.e),
                           ResolvedValue(CallContext, CallBinding))>>

\* two operations that give another value in the other order
C10_Witness ==
    /\ Formatted /\ CallFormat = T_p /\ parserOperations # Undefined
    /\ ret.t = "string"
    /\ Len(parserOperations.e) = 2
    /\ finals # <<Fold(CallContext, Reversed(parserOperations.e), 2,
                       ResolvedValue(CallContext, CallBinding))>>

\* the operations of the binding on p, the value it starts from and the
\* value before its last operation
CallOperations == parserOperations.e
CallResolved == ResolvedValue(CallContext, CallBinding)
LastOperation == CallOperations[Len(CallOperations)]
BeforeLast == Fold(CallContext, CallOperations, Len(CallOperations) - 1, CallResolved)

\* the latest call ended with an operation of kind op on a number, with a
\* number as argument
EndsWithClamp(op) ==
    /\ Formatted /\ CallFormat = T_p /\ parserOperations # Undefined
    /\ CallOperations # <<>>
    /\ LastOperation.op = op
    /\ LastOperation.arg.t = "number"
    /\ BeforeLast.t = "number"

Below(v, a) == v.n * a.d < a.n * v.d

\* C11: min gives the argument when the value is below it and the value
\* otherwise, max gives the argument when the value is above it and the
\* value otherwise
C11_MinFloorMaxCeiling ==
    /\ EndsWithClamp("min")
         => finals = <<IF Below(BeforeLast, LastOperation.arg) THEN LastOperation.arg
                       ELSE BeforeLast>>
    /\ EndsWithClamp("max")
         => finals = <<IF Below(LastOperation.arg, BeforeLast) THEN LastOperation.arg
                       ELSE BeforeLast>>

\* min raised the value an earlier operation had produced to the argument
C11_Witness ==
    /\ EndsWithClamp("min")
    /\ Len(CallOperations) = 2
    /\ BeforeLast # CallResolved
    /\ Below(BeforeLast, LastOperation.arg)
    /\ finals = <<LastOperation.arg>>

(***************************************************************************)
(* The formatters called on their own                                      *)
(***************************************************************************)
S_pointComma == <<".", ",">>
S_commaPoint == <<",", ".">>

\* the arguments formatValue is called with: 1234.5, -1234.5, 12345, 0.5,
\* 12, a numeric string and a string that is no number; no count, a count,
\* or a separator pair in the place of the count; no pair or a pair
ValueInputs == {Num(2469, 2), Num(-2469, 2), Int2Num(12345), Num(1, 2), Int2Num(12),
                Str(<<"1", "2", "3", "4", ".", "5">>), Str(<<"x">>)}
DecimalsInputs == {Undefined, Int2Num(0), Int2Num(2), Int2Num(4), Str(S_commaPoint)}
PairInputs == {Undefined, Str(S_pointComma), Str(S_commaPoint)}

\* a call of VisFormatUtils.formatValue(value, decimals, _format).  The
\* formatters keep no state and change none: a behaviour is one call
FormatValue(value, decimals, _format) ==
    /\ call.fn = "none"
    /\ call' = [fn |-> "formatValue", value |-> value, decimals |-> decimals,
                format |-> _format]
    /\ ret' = formatValue(value, decimals, _format)
    /\ UNCHANGED <<editMode, bindingsCache, heap, held, calls, parserCalls, finals, vis,
                   timezone, instrumented, parserNull, parserOperations, project, widgets,
                   pastes>>

\* the instants formatDate is called with: 100 and 3723004 (durations),
\* the last duration and the first instant in seconds, 2000-01-01 00:00:00,
\* 2005-03-02 01:04:05 in seconds and with 7 ms in milliseconds,
\* 2011-11-12 13:14:15.167 in milliseconds, and the first instant in
\* milliseconds
DateInputs == {Int2Num(100), Int2Num(3723004), Int2Num(946681199), Int2Num(946681200),
               Int2Num(946684800), Int2Num(1109725445), Thousands(1109725445, 7),
               Thousands(1321103655, 167), Thousands(946681200, 0)}

\* patterns of one token, by alphabet
LatinTokens == {<<"Y", "Y", "Y", "Y">>, <<"Y", "Y">>, <<"M", "M">>, <<"M">>, <<"D", "D">>,
                <<"D">>, <<"h", "h">>, <<"h">>, <<"m", "m">>, <<"m">>, <<"s", "s">>, <<"s">>,
                <<"s", "s", "s">>}
GermanTokens == {<<"J", "J", "J", "J">>, <<"J", "J">>, <<"T", "T">>, <<"T">>, <<"S", "S">>,
                 <<"S">>}
CyrillicTokens == {<<Cyr_G, Cyr_G, Cyr_G, Cyr_G>>, <<Cyr_G, Cyr_G>>, <<Cyr_M, Cyr_M>>,
                   <<Cyr_M>>, <<Cyr_D, Cyr_D>>, <<Cyr_D>>, <<Cyr_ch, Cyr_ch>>, <<Cyr_ch>>,
                   <<Cyr_m, Cyr_m>>, <<Cyr_m>>, <<Cyr_s, Cyr_s>>, <<Cyr_s>>,
                   <<Cyr_s, Cyr_s, Cyr_s>>}

\* patterns with separators, with runs of format letters that are no
\* token, and without any format letter
MixedPatterns == {<<"Y", "Y", "Y", "Y", "-", "M", "M", "-", "D", "D">>,
                  <<"h", "h", ":", "m", "m", ":", "s", "s">>,
                  <<"m", "m", ":", "s", "s">>,
                  <<"h", "m">>, <<"Y", "Y", "Y">>, <<"a", "D", "D", "D", "b">>, <<"a", "-", "b">>}

Patterns == LatinTokens \cup GermanTokens \cup CyrillicTokens \cup MixedPatterns

\* the second and third argument of formatDate: a flag and a pattern or
\* none, or the pattern in the place of the flag
FlagAndPattern ==
    ({Bool(TRUE), Bool(FALSE), Str(S_duration)}
        \X ({Undefined} \cup {Str(f) : f \in Patterns}))
    \cup (({Undefined} \cup {Str(f) : f \in Patterns}) \X {Undefined})

\* getTimezoneOffset() in Berlin in winter, in London in winter, in New York
\* in winter
Timezones == {-60, 0, 300}

\* the Date objects a caller passes: 2005-03-02 01:04:05.007 and one hour,
\* two minutes, three seconds and four milliseconds after the epoch
DateObjects == {Date(1109725445, 7), Date(3723, 4)}

\* a call of formatDate(dateObj, isDuration, _format).  The call records
\* what the caller's object holds after it, and that nothing was rendered
\* from this object before
FormatDate(dateObj, isDuration, _format) ==
    /\ call.fn = "none"
    /\ call' = [fn |-> "formatDate", dateObj |-> dateObj, isDuration |-> isDuration,
                format |-> _format,
                after |-> DateObjectAfter(timezone, dateObj, isDuration),
                previous |-> Undefined]
    /\ ret' = formatDate(vis, timezone, dateObj, isDuration, _format)
    /\ UNCHANGED <<editMode, bindingsCache, heap, held, calls, parserCalls, finals, vis,
                   timezone, instrumented, parserNull, parserOperations, project, widgets,
                   pastes>>

\* the caller formats the same Date object a second time, with the same
\* flag and pattern
FormatDateAgain ==
    /\ call.fn = "formatDate"
    /\ call.dateObj.t = "date"
    /\ call.previous = Undefined
    /\ call' = [call EXCEPT !.dateObj = call.after,
                            !.after = DateObjectAfter(timezone, call.after, call.isDuration),
                            !.previous = ret]
    /\ ret' = formatDate(vis, timezone, call.after, call.isDuration, call.format)
    /\ UNCHANGED <<editMode, bindingsCache, heap, held, calls, parserCalls, finals, vis,
                   timezone, instrumented, parserNull, parserOperations, project, widgets,
                   pastes>>

\* the instants formatMomentDate is called with: those of formatDate, the
\* instant of the clock less a day and less two hours
MomentInputs == DateInputs \cup {Int2Num(1109639045), Int2Num(1109718245)}

\* patterns of the moment library with and without a token of the weekday
MomentPatterns == {Undefined,
                   Str(<<"d", "d", "d", "d", " ", "D", "D", ".", "M", "M">>),
                   Str(<<"d", "d", "d">>), Str(<<"d", "d">>),
                   Str(<<"H", "H", ":", "m", "m">>)}

\* useTodayOrYesterday: left out, a boolean, or the text after the comma of
\* the argument of the operator
UseInputs == {Undefined, Bool(FALSE), Bool(TRUE), Str(<<"t", "r", "u", "e">>)}

\* what moment() returns during the call: the clock of the pipeline, or
\* 2000-01-01 12:00:00 UTC
Clocks == {Clock, Date(946728000, 0)}

\* a call of formatMomentDate(dateObj, _format, useTodayOrYesterday, moment)
\* at the instant now
FormatMomentDate(now, dateObj, _format, useTodayOrYesterday) ==
    /\ call.fn = "none"
    /\ call' = [fn |-> "formatMomentDate", dateObj |-> dateObj, format |-> _format,
                use |-> useTodayOrYesterday, now |-> now]
    /\ ret' = formatMomentDate(vis, timezone, now, dateObj, _format, useTodayOrYesterday)
    /\ UNCHANGED <<editMode, bindingsCache, heap, held, calls, parserCalls, finals, vis,
                   timezone, instrumented, parserNull, parserOperations, project, widgets,
                   pastes>>

InitFormatters ==
    /\ Constructed
    /\ Unloaded
    /\ editMode = FALSE
    /\ vis \in {DefaultVis, DatedVis,
                [DefaultVis EXCEPT !.language = Str(<<"d", "e">>)]}
    /\ timezone \in Timezones
    /\ instrumented = FALSE
    /\ parserNull = FALSE
    /\ parserOperations = Undefined

NextFormatters ==
    \/ \E value \in ValueInputs, decimals \in DecimalsInputs, pair \in PairInputs :
          FormatValue(value, decimals, pair)
    \/ \E dateObj \in DateInputs \cup DateObjects, a \in FlagAndPattern :
          FormatDate(dateObj, a[1], a[2])
    \/ FormatDateAgain
    \/ \E now \in Clocks, dateObj \in MomentInputs, _format \in MomentPatterns,
          useTodayOrYesterday \in UseInputs :
          FormatMomentDate(now, dateObj, _format, useTodayOrYesterday)

SpecFormatters == InitFormatters /\ [][NextFormatters]_vars

\* the latest call was formatValue on a number
ValueFormatted == call.fn = "formatValue" /\ call.value.t = "number"

\* the text of the value with k decimals, its digits before and after the
\* point
Fixed(k) == ToFixed(call.value, Int2Num(k)).s
IntegerDigits(k) ==
    IF IndexOf(Fixed(k), <<".">>) = 0 THEN Fixed(k)
    ELSE SubSeq(Fixed(k), 1, IndexOf(Fixed(k), <<".">>) - 1)
FractionDigits(k) ==
    IF IndexOf(Fixed(k), <<".">>) = 0 THEN <<>>
    ELSE SubSeq(Fixed(k), IndexOf(Fixed(k), <<".">>) + 1, Len(Fixed(k)))

\* digits in groups of three from the right, a sign kept in front
RECURSIVE Grouped(_, _)
Grouped(digits, group) ==
    IF digits # <<>> /\ digits[1] = "-" THEN <<"-">> \o Grouped(Tail(digits), group)
    ELSE IF Len(digits) <= 3 THEN digits
    ELSE Grouped(SubSeq(digits, 1, Len(digits) - 3), group)
         \o <<group>> \o SubSeq(digits, Len(digits) - 2, Len(digits))

\* the value with k decimals, the decimal character and the group character
Rendered(k, decimal, group) ==
    Grouped(IntegerDigits(k), group)
    \o (IF k = 0 THEN <<>> ELSE <<decimal>> \o FractionDigits(k))

\* the separator pair of the latest call
CallPair == IF call.format.t = "string" THEN call.format.s ELSE S_pointComma

\* C12: the first character of the separator pair is the decimal character
\* and the second the group character; by default 1234.5 with 2 decimals
\* is "1,234.50"
C12_DecimalThenGroup ==
    (ValueFormatted /\ call.decimals.t = "number" /\ call.decimals.n <= 2)
        => ret = Str(Rendered(call.decimals.n, CallPair[1], CallPair[2]))

\* C13: the digits after the decimal character come in one piece, whatever
\* the count of decimals, and the digits before it are grouped by three
C13_IntegerPartGrouped ==
    (ValueFormatted /\ call.decimals.t = "number")
        => /\ ret.t = "string"
           /\ \E decimal, group \in {CallPair[1], CallPair[2]} :
                 ret.s = Rendered(call.decimals.n, decimal, group)

\* C14: without a numeric count formatValue uses 0 decimals; with a value
\* alone it uses the default pair, with a pair in the place of the count
\* that pair
C14_CountDefaultsToZero ==
    (ValueFormatted /\ call.decimals.t # "number" /\ call.format.t = "undefined")
        => /\ ret.t = "string"
           /\ LET pair == IF call.decimals.t = "string" THEN call.decimals.s
                          ELSE S_pointComma
              IN \E decimal, group \in {pair[1], pair[2]} :
                    ret.s = Rendered(0, decimal, group)

(***************************************************************************)
(* formatDate                                                              *)
(***************************************************************************)
DateFormatted == call.fn = "formatDate"

\* the call asks for a duration: isDuration is true or 'duration'
DurationFlag == call.isDuration \in {Bool(TRUE), Str(S_duration)}

\* the pattern the call passes: after the flag, or in the place of the flag
CallPattern ==
    IF call.isDuration.t = "boolean" \/ call.isDuration = Str(S_duration)
    THEN call.format
    ELSE call.isDuration

\* the call passes an integer and a pattern
IntegerFormatted ==
    DateFormatted /\ IsIntegerNumber(call.dateObj) /\ CallPattern.t = "string"

\* the pattern of the call filled in with the fields of an instant in the
\* zone tz
Filled(instant, tz) == Str(PatternLoop(CallPattern.s, 1, <<>>, <<>>, LocalFields(instant, tz)))

S_isoDay == <<"Y", "Y", "Y", "Y", "-", "M", "M", "-", "D", "D">>
S_2000_01_01 == <<"2", "0", "0", "0", "-", "0", "1", "-", "0", "1">>

\* C15: an integer n from 946681200 on is an instant: n seconds after the
\* epoch below 946681200000, n milliseconds after the epoch from there on;
\* 946684800 with the pattern YYYY-MM-DD at UTC is 2000-01-01
C15_SecondsOrMilliseconds ==
    (IntegerFormatted /\ ~BelowDurationLimit(call.dateObj))
        => /\ ret = Filled(IF call.dateObj.t = "number"
                           THEN Date(call.dateObj.n, 0)
                           ELSE Date(call.dateObj.q, call.dateObj.r),
                           IF DurationFlag THEN 0 ELSE timezone)
           /\ (/\ call.dateObj = Int2Num(946684800)
               /\ CallPattern = Str(S_isoDay)
               /\ timezone = 0)
                 => ret = Str(S_2000_01_01)

C15_Witness ==
    /\ IntegerFormatted
    /\ call.dateObj = Int2Num(946684800)
    /\ CallPattern = Str(S_isoDay)
    /\ timezone = 0
    /\ ret = Str(S_2000_01_01)

\* C16: an integer n below 946681200 is a duration of n seconds: the fields
\* rendered are those of n seconds of elapsed time
C16_DurationInSeconds ==
    (IntegerFormatted /\ call.dateObj.t = "number" /\ call.dateObj.n > 0
        /\ BelowDurationLimit(call.dateObj))
        => ret = Filled(Date(call.dateObj.n, 0), 0)

S_clock == <<"h", "h", ":", "m", "m", ":", "s", "s">>

\* the call is in duration mode: by the flag or by an integer below
\* 946681200
DurationMode ==
    DurationFlag \/ (IsIntegerNumber(call.dateObj) /\ BelowDurationLimit(call.dateObj))

\* C17: in duration mode the offset of the zone is added once before the
\* fields are read, so that the fields are those at UTC whatever the zone;
\* without duration mode the fields are those in the zone
C17_ShiftedOnce ==
    (IntegerFormatted /\ ret.t = "string")
        => ret = Filled(DateOfInteger(call.dateObj), IF DurationMode THEN 0 ELSE timezone)

C17_Witness ==
    /\ IntegerFormatted
    /\ DurationMode
    /\ timezone # 0
    /\ CallPattern = Str(S_clock)
    /\ call.dateObj = Thousands(1321103655, 167)
    /\ ret = Str(<<"1", "3", ":", "1", "4", ":", "1", "5">>)

\* the fields formatDate reads for the call
CallFields == LocalFields(DateOfInteger(call.dateObj), IF DurationMode THEN 0 ELSE timezone)

\* the tokens of two characters that _put knows
TwoCharacterTokens ==
    {ss \in YearTokens \cup MonthTokens \cup DayTokens \cup HourTokens \cup MinuteTokens
             \cup SecondTokens : Len(ss) = 2}

\* the number a token of two characters stands for
TokenValue(ss, fields) ==
    CASE ss \in YearTokens -> fields.year % 100
      [] ss \in MonthTokens -> fields.month
      [] ss \in DayTokens -> fields.day
      [] ss \in HourTokens -> fields.hours
      [] ss \in MinuteTokens -> fields.minutes
      [] ss \in SecondTokens -> fields.seconds

\* C18: a token of two characters renders as two characters, with a zero in
\* front of a value below 10, and the token of the milliseconds as three
C18_FixedWidth ==
    IntegerFormatted
        => /\ CallPattern.s \in TwoCharacterTokens
                => ret = Str(PadStart(NatToString(TokenValue(CallPattern.s, CallFields)),
                                      2, "0"))
           /\ CallPattern.s \in MillisecondTokens
                => ret = Str(PadStart(NatToString(CallFields.milliseconds), 3, "0"))

\* the Latin letter of a format letter
LatinLetter(c) ==
    CASE c \in {"J", Cyr_G} -> "Y"
      [] c = Cyr_M -> "M"
      [] c \in {"T", Cyr_D} -> "D"
      [] c \in {"S", Cyr_ch} -> "h"
      [] c = Cyr_m -> "m"
      [] c = Cyr_s -> "s"
      [] OTHER -> c

\* the Latin token of the same length
LatinToken(ss) == [k \in 1..Len(ss) |-> LatinLetter(ss[k])]

\* C19: a German or Cyrillic token renders what the Latin token of the same
\* length renders
C19_AliasesInterchangeable ==
    (IntegerFormatted /\ CallPattern.s \in GermanTokens \cup CyrillicTokens)
        => ret = Str(PatternLoop(LatinToken(CallPattern.s), 1, <<>>, <<>>, CallFields))

\* a run of format letters in the output: the value of the field when the
\* run is a token, the run itself otherwise
PutOrKeep(ss, fields, result) ==
    IF ss \in YearTokens \cup MonthTokens \cup DayTokens \cup HourTokens \cup MinuteTokens
              \cup SecondTokens \cup MillisecondTokens
    THEN _put(ss, fields, result)
    ELSE result \o ss

\* the pattern with its tokens replaced and everything else left in place
RECURSIVE Verbatim(_, _, _, _, _)
Verbatim(format, i, ss, result, fields) ==
    IF i > Len(format) THEN PutOrKeep(ss, fields, result)
    ELSE IF IsFormatChar(format[i])
      THEN Verbatim(format, i + 1, ss \o <<format[i]>>, result, fields)
    ELSE Verbatim(format, i + 1, <<>>, PutOrKeep(ss, fields, result) \o <<format[i]>>, fields)

\* C20: the output is the pattern with every token replaced by the value of
\* its field and every other character, those of a run of format letters
\* that is no token included, left in place (patterns with the Cyrillic
\* letter of the seconds are left to C19)
C20_OthersVerbatim ==
    (IntegerFormatted /\ \A k \in 1..Len(CallPattern.s) : CallPattern.s[k] # Cyr_s)
        => ret = Str(Verbatim(CallPattern.s, 1, <<>>, <<>>, CallFields))

\* C28: formatDate leaves a Date object of the caller as it was: the
\* instant the object holds after the call is the instant it held before,
\* and formatting the object a second time renders the same text
C28_CallerDateUnchanged ==
    (DateFormatted /\ call.dateObj.t = "date")
        => /\ call.after = call.dateObj
           /\ call.previous # Undefined => ret = call.previous

(***************************************************************************)
(* formatMomentDate                                                        *)
(***************************************************************************)
\* the latest call was formatMomentDate on an integer with a pattern and
\* with the today/yesterday option
TodayOrYesterdayAsked ==
    /\ call.fn = "formatMomentDate"
    /\ IsIntegerNumber(call.dateObj)
    /\ call.format.t = "string"
    /\ call.use \in {Bool(TRUE), Str(<<"t", "r", "u", "e">>)}

\* the days between the instant of the call and its clock, in the zone
DaysAgo ==
    LocalDay(call.now, timezone) - LocalDay(DateOfInteger(call.dateObj), timezone)

\* C21: with the today/yesterday option the result is always the text the
\* library renders: under the pattern with the weekday token replaced by the
\* word for today or yesterday on these two days, under the pattern as it is
\* on every other day
C21_AlwaysRendered ==
    TodayOrYesterdayAsked
        => ret = Str(MomentFormat(DateOfInteger(call.dateObj),
                        IF DaysAgo = 0
                          THEN ReplaceWeekday(call.format.s, Translate(vis, <<"T", "o", "d", "a", "y">>))
                        ELSE IF DaysAgo = 1
                          THEN ReplaceWeekday(call.format.s,
                                  Translate(vis, <<"Y", "e", "s", "t", "e", "r", "d", "a", "y">>))
                        ELSE call.format.s))

\* the pattern the project configures, or the pattern of the formatters
DefaultPattern == IF Truthy(vis.dateFormat) THEN vis.dateFormat ELSE Str(S_defaultDateFormat)

\* the binding on p ends with an operation of the kind op that has no
\* argument
EndsWithoutPattern(op) ==
    /\ Formatted /\ CallFormat = T_p /\ parserOperations # Undefined
    /\ CallOperations # <<>>
    /\ LastOperation.op = op
    /\ LastOperation.arg = Undefined
    /\ BeforeLast.t = "number"

\* C22: date and momentDate without an argument render the value with
\* their formatter under the default pattern
C22_DefaultPattern ==
    /\ EndsWithoutPattern("date")
         => finals = <<formatDate(vis, timezone, BeforeLast, Bool(FALSE), DefaultPattern)>>
    /\ EndsWithoutPattern("momentDate")
         => finals = <<formatMomentDate(vis, timezone, Clock, BeforeLast, DefaultPattern,
                                        Bool(FALSE))>>

(***************************************************************************)
(* json and eval on JSON text                                              *)
(***************************************************************************)
Absent == [t |-> "absent"]

\* the property at the path parts[i..] of obj, or Absent when the path
\* leaves the object
RECURSIVE PathValue(_, _, _)
PathValue(obj, parts, i) ==
    IF i > Len(parts) THEN obj
    ELSE IF obj.t = "object" /\ parts[i] \in DOMAIN obj.f
      THEN PathValue(obj.f[parts[i]], parts, i + 1)
    ELSE Absent

\* the binding on p ends with json(path) and the value before it is a
\* non-empty string
EndsWithJson ==
    /\ Formatted /\ CallFormat = T_p /\ parserOperations # Undefined
    /\ CallOperations # <<>>
    /\ LastOperation.op = "json"
    /\ LastOperation.arg.t = "string"
    /\ BeforeLast.t = "string" /\ BeforeLast.s # <<>>

JsonParsed == JSONParse(BeforeLast.s)
JsonPath == SplitDot(LastOperation.arg.s, 1, <<>>)

\* C23: json yields the property at the path for every path that exists in
\* the parsed object, whatever its value; a string that does not parse is
\* left as it is and nothing is thrown
C23_JsonProperty ==
    EndsWithJson
        => /\ (JsonParsed.t = "object" /\ PathValue(JsonParsed, JsonPath, 1) # Absent)
                => finals = <<PathValue(JsonParsed, JsonPath, 1)>>
           /\ JsonParsed.t = "throw" => (finals = <<BeforeLast>> /\ ret.t = "string")

\* the binding on p is eval with the one argument a, the state p, and the
\* formula a, and the state is a string that parses as an object or array
EvalOfJson ==
    /\ Formatted /\ CallFormat = T_p /\ parserOperations # Undefined
    /\ CallOperations = <<Operation("eval", ArgA(K_p), Str(<<"a">>))>>
    /\ call.options.values.m[K_p].t = "string"
    /\ JSONParse(call.options.values.m[K_p].s).t \in {"object", "array"}

\* C24: a named argument of eval whose state is the JSON text of an object
\* or array is bound to the parsed object: the script compiles and the
\* formula a returns the object, which the operation leaves as its JSON text
C24_JsonArgumentBound ==
    EvalOfJson
        => finals = <<Str(JSONStringify(JSONParse(call.options.values.m[K_p].s)))>>

C26_LookupOnlyStored ==
    Extracted
        => /\ \A f \in LookupTemplates :
                 CacheHit(bindingsCache, f) <=> f \in DOMAIN bindingsCache
           /\ (CallFormat # <<>> /\ ~call.parsed) => CallFormat \in DOMAIN bindingsCache

(***************************************************************************)
(* Pasting groups and importing views (Utils/utils.tsx and                 *)
(* Toolbar/ViewsManager/index.tsx).  A widget is an object with the        *)
(* properties tpl, groupid and data; data holds name and, for a group,     *)
(* members.  A view holds its widgets by id.  Where the order of the keys  *)
(* of an object is read (Object.entries), the object is a sequence of      *)
(* pairs of key and value.                                                 *)
(***************************************************************************)
K_tpl == <<"t", "p", "l">>
K_groupid == <<"g", "r", "o", "u", "p", "i", "d">>
K_data == <<"d", "a", "t", "a">>
K_members == <<"m", "e", "m", "b", "e", "r", "s">>
K_name == <<"n", "a", "m", "e">>
S_tplGroup == <<"_", "t", "p", "l", "G", "r", "o", "u", "p">>
S_tplText == <<"t", "p", "l", "T", "e", "x", "t">>

\* widget.tpl === '_tplGroup' (utils.tsx, line 45)
isGroup(widget) == GetProperty(widget, K_tpl) = Str(S_tplGroup)

\* group.data.members
Members(group) == GetProperty(GetProperty(group, K_data), K_members).e

\* widget.groupid
GroupIdOf(widget) == GetProperty(widget, K_groupid)

\* obj[key] = value
SetProperty(obj, key, value) == Obj((key :> value) @@ obj.f)

\* group.data.members[i] = id (line 138)
SetMember(group, i, id) ==
    SetProperty(group, K_data,
                SetProperty(GetProperty(group, K_data), K_members,
                            Arr([Members(group) EXCEPT ![i] = id])))

\* obj[key] of an object given by its entries
Entry(entries, key) ==
    IF \E k \in 1..Len(entries) : entries[k][1] = key
    THEN entries[CHOOSE k \in 1..Len(entries) : entries[k][1] = key][2]
    ELSE Undefined

\* the keys of the widgets of all views that have widgets (lines 65-69)
WidgetKeys(visProject) ==
    UNION {DOMAIN visProject[view].widgets :
              view \in {v \in DOMAIN visProject : visProject[v].t = "view"}}

\* parseInt(matches[1], 10) for a key that matches /^g([0-9]+)$/ resp.
\* /^w([0-9]+)$/ (lines 72-74); 0, which never raises newKey, for any other
KeyNumber(isWidgetGroup, name) ==
    IF /\ Len(name) > 1
       /\ name[1] = (IF isWidgetGroup THEN "g" ELSE "w")
       /\ DigitsEnd(name, 2) > Len(name)
    THEN DigitsValue(name, 2, Len(name))
    ELSE 0

Largest(S) == CHOOSE m \in S : \A n \in S : n <= m

\* getNewWidgetIdNumber(isWidgetGroup, project, offset) (lines 64-83): one
\* more than the largest number in use, or 1, plus the offset
getNewWidgetIdNumber(isWidgetGroup, visProject, offset) ==
    Largest({0} \cup {KeyNumber(isWidgetGroup, name) : name \in WidgetKeys(visProject)})
        + 1 + offset

\* `w${newKey.toString().padStart(6, '0')}` (line 94), and with g (line 105)
Key(prefix, newKey) == <<prefix>> \o PadStart(NatToString(newKey), 6, "0")

\* getNewWidgetId(project, offset) (lines 91-95)
getNewWidgetId(visProject, offset) ==
    Key("w", getNewWidgetIdNumber(FALSE, visProject, offset))

\* getNewGroupId(project, offset) (lines 102-106)
getNewGroupId(visProject, offset) ==
    Key("g", getNewWidgetIdNumber(TRUE, visProject, offset))

\* no view of the project holds the widgets object by reference
NoView == ""

\* what a paste works on: the project the ids are computed from and the
\* widgets object that is written.  When view names a view, the widgets
\* object is that of the view, and what is written is part of the project
PasteState(visProject, target, view) ==
    [t |-> "state", project |-> visProject, widgets |-> target, view |-> view]

\* widgets[id] = widget (lines 139 and 142)
Put(st, id, widget) ==
    PasteState(IF st.view = NoView THEN st.project
               ELSE [st.project EXCEPT ![st.view].widgets = (id :> widget) @@ st.widgets],
               (id :> widget) @@ st.widgets,
               st.view)

RECURSIVE PasteMembers(_, _, _, _, _)

\* one pass of the loop of pasteGroup (lines 132-140) for the copy
\* newMember of the i-th member and its new id; deepClone of a member that
\* is missing throws
PasteMember(st, group, groupMembers, newGroupId, i, newMember, newMemberId) ==
    IF newMember.t = "throw" THEN [t |-> "throw", st |-> st, group |-> group]
    ELSE PasteMembers(Put(st, newMemberId, SetProperty(newMember, K_groupid, Str(newGroupId))),
                      SetMember(group, i, Str(newMemberId)),
                      groupMembers, newGroupId, i + 1)

\* the loop of pasteGroup from the i-th member on, and the store of the
\* group (line 142)
PasteMembers(st, group, groupMembers, newGroupId, i) ==
    IF i > Len(Members(group))
    THEN [t |-> "pasted", st |-> Put(st, newGroupId, group), group |-> group]
    ELSE PasteMember(st, group, groupMembers, newGroupId, i,
                     deepClone(Entry(groupMembers, Members(group)[i].s)),
                     getNewWidgetId(st.project, i - 1))

\* offset ?? 0 (line 129)
OffsetOrZero(offset) == IF offset.t \in {"undefined", "null"} THEN 0 ELSE offset.n

\* pasteGroup({ widgets, group, groupMembers, offset, project }) (lines
\* 125-143): the state after the call and the group as the call left it
pasteGroup(st, group, groupMembers, offset) ==
    PasteMembers(st, group, groupMembers, getNewGroupId(st.project, OffsetOrZero(offset)), 1)

RECURSIVE ImportEntries(_, _, _)

\* the group branch of the loop of importViewAction (lines 145-148): the
\* group is the object of originalWidgets, which the paste rewrites
ImportGroup(originalWidgets, i, pasted) ==
    IF pasted.t = "throw" THEN pasted
    ELSE ImportEntries(pasted.st,
                       [originalWidgets EXCEPT ![i] = <<originalWidgets[i][1], pasted.group>>],
                       i + 1)

\* for (const [wid, widget] of Object.entries(originalWidgets)) (lines
\* 144-153) from the i-th entry on
ImportEntries(st, originalWidgets, i) ==
    IF i > Len(originalWidgets) THEN [t |-> "imported", st |-> st]
    ELSE IF isGroup(originalWidgets[i][2])
      THEN ImportGroup(originalWidgets, i,
                       pasteGroup(st, originalWidgets[i][2], originalWidgets, Undefined))
    ELSE IF ~Truthy(GroupIdOf(originalWidgets[i][2]))
      THEN ImportEntries(Put(st, getNewWidgetId(st.project, 0), originalWidgets[i][2]),
                         originalWidgets, i + 1)
    ELSE ImportEntries(st, originalWidgets, i + 1)

\* deepClone of an object given by its entries
CloneEntries(entries) ==
    [k \in 1..Len(entries) |-> <<entries[k][1], deepClone(entries[k][2])>>]

\* deepClone(visProject) (line 128)
CloneProject(visProject) ==
    [v \in DOMAIN visProject |->
        IF visProject[v].t # "view" THEN visProject[v]
        ELSE [visProject[v] EXCEPT
                 !.widgets = [id \in DOMAIN visProject[v].widgets |->
                                 deepClone(visProject[v].widgets[id])]]]

\* a view of the project
View(settings, viewWidgets) == [t |-> "view", settings |-> settings, widgets |-> viewWidgets]

\* project[view] = { ...viewObject, widgets: {}, activeWidgets: [] } (line
\* 142), parentId deleted (lines 131-133)
WithView(visProject, view, viewObject) ==
    (view :> View(viewObject.settings, <<>>)) @@ visProject

\* importViewAction(view, data) (lines 127-157) on the project of the
\* store, viewObject being what JSON.parse(data) returns: the project
\* handed to changeProject, or the mark that the function returned or
\* threw before
importViewAction(visProject, view, viewObject) ==
    IF ~Truthy(viewObject.settings) \/ ~Truthy(viewObject.widgets)
    THEN [t |-> "returned"]
    ELSE ImportEntries(PasteState(WithView(CloneProject(visProject), view, viewObject),
                                  <<>>, view),
                       CloneEntries(viewObject.widgets.e), 1)

\* groups pasted before a save
MaxPastes == 2
\* the offsets the calls of pasteGroup pass
MaxOffset == 2

TextWidget(name, groupid) ==
    Obj((K_tpl :> Str(S_tplText)) @@ (K_data :> Obj(K_name :> Str(<<name>>)))
        @@ (IF groupid = <<>> THEN <<>> ELSE (K_groupid :> Str(groupid))))

GroupWidget(name, members, groupid) ==
    Obj((K_tpl :> Str(S_tplGroup))
        @@ (K_data :> Obj((K_name :> Str(<<name>>))
                          @@ (K_members :> Arr([k \in 1..Len(members) |-> Str(members[k])]))))
        @@ (IF groupid = <<>> THEN <<>> ELSE (K_groupid :> Str(groupid))))

\* the widgets object of a viewObject
Entries(e) == [t |-> "entries", e |-> e]

W1 == Key("w", 1)
W2 == Key("w", 2)
W3 == Key("w", 3)
G1 == Key("g", 1)
G2 == Key("g", 2)

Settings == [t |-> "settings"]

\* a project without widgets, and one whose views hold widgets and a group
EmptyProject == ("___settings" :> Settings) @@ ("v" :> View(Obj(<<>>), <<>>))
UsedProject ==
    ("___settings" :> Settings)
    @@ ("v" :> View(Obj(<<>>),
                    (W1 :> TextWidget("P", <<>>)) @@ (W2 :> TextWidget("Q", G1))
                    @@ (G1 :> GroupWidget("R", <<W2>>, <<>>))))
    @@ ("u" :> View(Obj(<<>>), (Key("w", 4) :> TextWidget("S", <<>>))))
Projects == {EmptyProject, UsedProject}

\* the clipboard: the members of the groups G and H, and a group E without
\* members
ClipboardMembers ==
    <<<<W1, TextWidget("A", G1)>>, <<W2, TextWidget("B", G1)>>, <<W3, TextWidget("C", G2)>>>>
ClipboardGroups ==
    {GroupWidget("G", <<W1, W2>>, <<>>), GroupWidget("H", <<W3>>, <<>>),
     GroupWidget("E", <<>>, <<>>)}
Offsets == {Undefined} \cup {Int2Num(k) : k \in 0..MaxOffset}

\* the views that are imported: groups and their members in both orders of
\* the keys, a widget outside of any group, a group inside a group in both
\* orders, a view without groups, and objects that lack settings or widgets
FlatWidgets ==
    {<<<<G1, GroupWidget("G", <<W1, W2>>, <<>>)>>, <<W1, TextWidget("A", G1)>>,
       <<W2, TextWidget("B", G1)>>, <<W3, TextWidget("C", <<>>)>>>>,
     <<<<W1, TextWidget("A", G1)>>, <<W3, TextWidget("C", <<>>)>>,
       <<W2, TextWidget("B", G1)>>, <<G1, GroupWidget("G", <<W1, W2>>, <<>>)>>>>,
     <<<<G1, GroupWidget("G", <<W1>>, <<>>)>>, <<W1, TextWidget("A", G1)>>,
       <<G2, GroupWidget("H", <<W2>>, <<>>)>>, <<W2, TextWidget("B", G2)>>>>,
     <<<<W1, TextWidget("A", <<>>)>>, <<W2, TextWidget("B", <<>>)>>>>,
     <<>>}
NestedWidgets ==
    {<<<<G2, GroupWidget("H", <<W1, G1>>, <<>>)>>, <<G1, GroupWidget("G", <<W2>>, G2)>>,
       <<W1, TextWidget("A", G2)>>, <<W2, TextWidget("B", G1)>>>>,
     <<<<W2, TextWidget("B", G1)>>, <<G1, GroupWidget("G", <<W2>>, G2)>>,
       <<W1, TextWidget("A", G2)>>, <<G2, GroupWidget("H", <<W1, G1>>, <<>>)>>>>}

ViewObject(settings, viewWidgets, parentId) ==
    [t |-> "view", settings |-> settings, widgets |-> viewWidgets, parentId |-> parentId]

ViewObjects ==
    {ViewObject(Obj(<<>>), Entries(e), p) :
        e \in FlatWidgets \cup NestedWidgets, p \in {Undefined, Str(<<"f">>)}}
    \cup {ViewObject(Undefined, Entries(<<>>), Undefined),
          ViewObject(Obj(<<>>), Undefined, Undefined)}

\* the names a view is imported under: that of a view of the project, and a
\* new one
ViewNames == {"v", "n"}

\* the ids a call of pasteGroup assigned: those of the members, then that
\* of the group
AssignedIds(pasted, newGroupId) ==
    [k \in 1..Len(Members(pasted.group)) |-> Members(pasted.group)[k].s]
        \o (IF pasted.t = "pasted" THEN <<newGroupId>> ELSE <<>>)

\* the record of a call of pasteGroup
Pasted(group, offset, pasted, newGroupId) ==
    [group |-> group, offset |-> OffsetOrZero(offset), present |-> DOMAIN widgets,
     ids |-> AssignedIds(pasted, newGroupId), threw |-> pasted.t = "throw"]

\* a group of the clipboard is pasted into widgets, which the project does
\* not hold: a group is pasted once, and no offset is used twice.  The
\* project is the one widgets was taken from
PasteGroup(group, offset) ==
    /\ call.fn = "none"
    /\ project # <<>>
    /\ Len(pastes) < MaxPastes
    /\ \A k \in 1..Len(pastes) :
          pastes[k].group # group /\ pastes[k].offset # OffsetOrZero(offset)
    /\ widgets' = pasteGroup(PasteState(project, widgets, NoView), group,
                             ClipboardMembers, offset).st.widgets
    /\ pastes' = Append(pastes,
                        Pasted(group, offset,
                               pasteGroup(PasteState(project, widgets, NoView), group,
                                          ClipboardMembers, offset),
                               getNewGroupId(project, OffsetOrZero(offset))))
    /\ UNCHANGED <<editMode, bindingsCache, heap, held, calls, parserCalls, call, ret, finals,
                   vis, timezone, instrumented, parserNull, parserOperations, project>>

\* what importViewAction leaves in the store: the new project when
\* changeProject was called (line 156)
ProjectAfter(imported) == IF imported.t = "imported" THEN imported.st.project ELSE project

\* the user imports a view
ImportView(view, viewObject) ==
    /\ call.fn = "none"
    /\ pastes = <<>>
    /\ project # <<>>
    /\ call' = [fn |-> "importViewAction", view |-> view, viewObject |-> viewObject,
                visProject |-> project]
    /\ project' = ProjectAfter(importViewAction(project, view, viewObject))
    /\ ret' = IF importViewAction(project, view, viewObject).t = "throw"
              THEN Throw ELSE Undefined
    /\ UNCHANGED <<editMode, bindingsCache, heap, held, calls, parserCalls, finals, vis,
                   timezone, instrumented, parserNull, parserOperations, widgets, pastes>>

\* a project is loaded; the widgets object groups are pasted into holds
\* what the view v holds
InitProject ==
    /\ Constructed
    /\ editMode = TRUE
    /\ vis = DefaultVis
    /\ timezone = 0
    /\ instrumented = FALSE
    /\ parserNull = FALSE
    /\ parserOperations = Undefined
    /\ project \in Projects
    /\ widgets = project["v"].widgets
    /\ pastes = <<>>

NextProject ==
    \/ \E group \in ClipboardGroups, offset \in Offsets : PasteGroup(group, offset)
    \/ \E view \in ViewNames, viewObject \in ViewObjects : ImportView(view, viewObject)

SpecProject == InitProject /\ [][NextProject]_vars

\* C29: the ids the calls of pasteGroup assigned to groups and members are
\* pairwise distinct, and no call wrote under an id that widgets held
\* before the call
C29_PastedIdsDistinct ==
    /\ \A k \in 1..Len(pastes) :
          /\ \A i, j \in 1..Len(pastes[k].ids) :
                i # j => pastes[k].ids[i] # pastes[k].ids[j]
          /\ \A i \in 1..Len(pastes[k].ids) : pastes[k].ids[i] \notin pastes[k].present
    /\ \A k, l \in 1..Len(pastes) :
          k # l => \A i \in 1..Len(pastes[k].ids), j \in 1..Len(pastes[l].ids) :
                      pastes[k].ids[i] # pastes[l].ids[j]

\* the latest call imported a view, and the view it left in the project
Imported == call.fn = "importViewAction" /\ ret = Undefined
              /\ Truthy(call.viewObject.settings) /\ Truthy(call.viewObject.widgets)
ImportedWidgets == project[call.view].widgets
SourceWidgets == call.viewObject.widgets.e

\* data.name of a widget, by which a copy is recognised
NameOf(widget) == GetProperty(GetProperty(widget, K_data), K_name)

\* the ids of the views the import did not write
OtherIds == WidgetKeys([v \in DOMAIN call.visProject \ {call.view} |-> call.visProject[v]])

\* C30: in the imported view every member a group lists is a widget of the
\* view, every widget with a groupid is listed by that group of the view,
\* and every widget of the source is there once, under an id no other view
\* uses
C30_GroupsIntact ==
    Imported
        => /\ \A id \in DOMAIN ImportedWidgets :
                 isGroup(ImportedWidgets[id])
                    => \A k \in 1..Len(Members(ImportedWidgets[id])) :
                          Members(ImportedWidgets[id])[k].s \in DOMAIN ImportedWidgets
           /\ \A id \in DOMAIN ImportedWidgets :
                 Truthy(GroupIdOf(ImportedWidgets[id]))
                    => /\ GroupIdOf(ImportedWidgets[id]).s \in DOMAIN ImportedWidgets
                       /\ isGroup(ImportedWidgets[GroupIdOf(ImportedWidgets[id]).s])
                       /\ \E k \in 1..Len(Members(ImportedWidgets[GroupIdOf(ImportedWidgets[id]).s])) :
                             Members(ImportedWidgets[GroupIdOf(ImportedWidgets[id]).s])[k] = Str(id)
           /\ \A k \in 1..Len(SourceWidgets) :
                 Cardinality({id \in DOMAIN ImportedWidgets :
                                 NameOf(ImportedWidgets[id]) = NameOf(SourceWidgets[k][2])}) = 1
           /\ Cardinality(DOMAIN ImportedWidgets) = Len(SourceWidgets)
           /\ DOMAIN ImportedWidgets \cap OtherIds = {}

====
